---- MODULE Spec2Model ----
(***************************************************************************)
(* Model of the buildarr-jellyseerr plugin: the permission bitmask codec,  *)
(* the remote-map encoders/decoders, the dry-run response simulator and    *)
(* the section reconciliation pass.                                        *)
(***************************************************************************)
EXTENDS Integers, Sequences, FiniteSets, TLC

VARIABLES
    dry_run,      \* buildarr.state: state.dry_run
    config,       \* the desired configuration (the local JellyseerrSettings)
    remote,       \* the state of the remote Jellyseerr instance
    remote0,      \* the state of the remote when the pass started
    snapshot,     \* the JellyseerrSettings built by from_remote
    pc,           \* position of the reconciliation pass
    invoked,      \* sections whose update_remote was invoked, in order
    results,      \* the values the sections' update_remote returned, in order
    calls,        \* every api_get/api_post/api_put/api_delete call made, in order
    err,          \* the exception that ended the pass, if any
    svc,          \* SonarrSettings.update_remote: service_ids, loop index, changed
    mapEntry,     \* a remote-map entry: "<section>.<local field>"
    mapLocal,     \* a local value v of that field
    mapWire,      \* encoder(v), the value sent to the remote
    mapBack,      \* decoder(encoder(v))
    mapPc,        \* "local", "wire" or "back"
    encoded,      \* users.py: the defaultPermissions bitmask read from the remote
    declared,     \* users.py: the user-declared default_permissions set
    decoded,      \* result of Permission.set_decoder(encoded)
    reduced,      \* result of Permission.set_reduce(declared)
    canon,        \* result of Permission.set_reduce applied to a decoder result
    canon2,       \* result of Permission.set_reduce applied to canon
    apiIn,        \* api.py: one call's method, request, expected status and response
    apiCall,      \* api.py: that call once the response is there
    apiOut        \* api.py: how the call ended: returned, or the exception raised

permVars == <<encoded, declared, decoded, reduced, canon, canon2>>

syncVars == <<dry_run, config, remote, remote0, snapshot, pc, invoked, results,
              calls, err, svc>>

mapVars == <<mapEntry, mapLocal, mapWire, mapBack, mapPc>>

apiVars == <<apiIn, apiCall, apiOut>>

vars == <<syncVars, permVars, mapVars, apiVars>>

\* ---------------------------------------------------------------------
\* Bounds
\* ---------------------------------------------------------------------

\* greatest number of flags set in a bitmask / members of a declared set
MaxFlags == 3

\* ---------------------------------------------------------------------
\* users.py: class Permission
\* ---------------------------------------------------------------------

Permission ==
    { "none", "admin", "manage_settings", "manage_users", "manage_requests",
      "request", "vote", "auto_approve", "auto_approve_movie", "auto_approve_tv",
      "request_4k", "request_4k_movie", "request_4k_tv", "request_advanced",
      "request_view", "auto_approve_4k", "auto_approve_4k_movie",
      "auto_approve_4k_tv", "request_movie", "request_tv", "manage_issues",
      "view_issues", "create_issues", "auto_request", "auto_request_movie",
      "auto_request_tv", "recent_view", "watchlist_view" }

PermValue ==
    [ none |-> 0, admin |-> 2, manage_settings |-> 4, manage_users |-> 8,
      manage_requests |-> 16, request |-> 32, vote |-> 64, auto_approve |-> 128,
      auto_approve_movie |-> 256, auto_approve_tv |-> 512, request_4k |-> 1024,
      request_4k_movie |-> 2048, request_4k_tv |-> 4096,
      request_advanced |-> 8192, request_view |-> 16384,
      auto_approve_4k |-> 32768, auto_approve_4k_movie |-> 65536,
      auto_approve_4k_tv |-> 131072, request_movie |-> 262144,
      request_tv |-> 524288, manage_issues |-> 1048576,
      view_issues |-> 2097152, create_issues |-> 4194304,
      auto_request |-> 8388608, auto_request_movie |-> 16777216,
      auto_request_tv |-> 33554432, recent_view |-> 67108864,
      watchlist_view |-> 134217728 ]

\* bitwise and / or of two naturals (Python's & and | on ints)
RECURSIVE BitAnd(_, _)
BitAnd(a, b) ==
    IF a = 0 \/ b = 0 THEN 0
    ELSE (a % 2) * (b % 2) + 2 * BitAnd(a \div 2, b \div 2)

RECURSIVE BitOr(_, _)
BitOr(a, b) ==
    IF a = 0 THEN b
    ELSE IF b = 0 THEN a
    ELSE (IF a % 2 = 1 \/ b % 2 = 1 THEN 1 ELSE 0) + 2 * BitOr(a \div 2, b \div 2)

\* `permissions_encoded & cls.x` used as a condition
Has(b, p) == BitAnd(b, PermValue[p]) # 0

\* functools.reduce(operator.ior, permissions, 0)
RECURSIVE set_encoder(_)
set_encoder(S) ==
    IF S = {} THEN 0
    ELSE LET p == CHOOSE x \in S : TRUE
         IN  BitOr(set_encoder(S \ {p}), PermValue[p])

\* a decoder outcome: a returned set, or the ValueError of _permission_error
Ok(S) == [ok |-> TRUE, perms |-> S, err |-> <<>>]

permission_error(permission, required_permission) ==
    [ok |-> FALSE, perms |-> {}, err |-> <<permission, required_permission>>]

\* the members of `fine` whose bit is set (one `for permission in (...)` loop)
FineOf(b, fine) == { p \in fine : Has(b, p) }

\* Family without its `else`: the fine-grained flags are added as well
Family_both(b, coarse, fine) ==
    (IF Has(b, coarse) THEN {coarse} ELSE {}) \cup FineOf(b, fine)

\* one "coarse flag, else its fine-grained flags" block without prerequisite
Family(b, coarse, fine) ==
    IF Has(b, coarse) THEN {coarse} ELSE FineOf(b, fine)

\* Dependent without the prerequisite test of the coarse flag
Dependent_unchecked(b, r, coarse, base, movie, tv) ==
    IF ~r.ok THEN r
    ELSE IF Has(b, coarse) THEN Ok(r.perms \cup {coarse})
    ELSE LET m == IF Has(b, movie[1])
                  THEN IF base \notin r.perms \/ movie[2] \notin r.perms
                       THEN permission_error(movie[1], movie[2])
                       ELSE Ok(r.perms \cup {movie[1]})
                  ELSE r
         IN  IF ~m.ok THEN m
             ELSE IF Has(b, tv[1])
             THEN IF base \notin m.perms \/ tv[2] \notin m.perms
                  THEN permission_error(tv[1], tv[2])
                  ELSE Ok(m.perms \cup {tv[1]})
             ELSE m

\* Dependent whose movie/tv flags test the coarse prerequisite only
Dependent_base_only(b, r, coarse, base, movie, tv) ==
    IF ~r.ok THEN r
    ELSE IF Has(b, coarse)
    THEN IF base \notin r.perms
         THEN permission_error(coarse, base)
         ELSE Ok(r.perms \cup {coarse})
    ELSE LET m == IF Has(b, movie[1])
                  THEN IF base \notin r.perms
                       THEN permission_error(movie[1], movie[2])
                       ELSE Ok(r.perms \cup {movie[1]})
                  ELSE r
         IN  IF ~m.ok THEN m
             ELSE IF Has(b, tv[1])
             THEN IF base \notin m.perms
                  THEN permission_error(tv[1], tv[2])
                  ELSE Ok(m.perms \cup {tv[1]})
             ELSE m

\* Dependent testing the prerequisites on the bits of b, not on the set
\* decoded so far
Dependent_bits(b, r, coarse, base, movie, tv) ==
    IF ~r.ok THEN r
    ELSE IF Has(b, coarse)
    THEN IF ~Has(b, base)
         THEN permission_error(coarse, base)
         ELSE Ok(r.perms \cup {coarse})
    ELSE LET m == IF Has(b, movie[1])
                  THEN IF ~Has(b, base) \/ ~Has(b, movie[2])
                       THEN permission_error(movie[1], movie[2])
                       ELSE Ok(r.perms \cup {movie[1]})
                  ELSE r
         IN  IF ~m.ok THEN m
             ELSE IF Has(b, tv[1])
             THEN IF ~Has(b, base) \/ ~Has(b, tv[2])
                  THEN permission_error(tv[1], tv[2])
                  ELSE Ok(m.perms \cup {tv[1]})
             ELSE m

\* one dependent block (auto_request, auto_approve, auto_approve_4k): r is
\* the outcome so far, base the coarse prerequisite, movie/tv the pairs
\* <<dependent flag, prerequisite named in the error>>
Dependent(b, r, coarse, base, movie, tv) ==
    IF ~r.ok THEN r
    ELSE IF Has(b, coarse)
    THEN IF base \notin r.perms
         THEN permission_error(coarse, base)
         ELSE Ok(r.perms \cup {coarse})
    ELSE LET m == IF Has(b, movie[1])
                  THEN IF base \notin r.perms \/ movie[2] \notin r.perms
                       THEN permission_error(movie[1], movie[2])
                       ELSE Ok(r.perms \cup {movie[1]})
                  ELSE r
         IN  IF ~m.ok THEN m
             ELSE IF Has(b, tv[1])
             THEN IF base \notin m.perms \/ tv[2] \notin m.perms
                  THEN permission_error(tv[1], tv[2])
                  ELSE Ok(m.perms \cup {tv[1]})
             ELSE m

\* set_decoder below its two early returns
DecodeFlags(b) ==
    LET p1 == IF Has(b, "manage_users") THEN {"manage_users"} ELSE {}
        p2 == p1 \cup Family(b, "manage_issues", {"create_issues", "view_issues"})
        p3 == p2 \cup Family(b, "manage_requests",
                  {"request_advanced", "request_view", "recent_view", "watchlist_view"})
        p4 == p3 \cup Family(b, "request", {"request_movie", "request_tv"})
        p5 == p4 \cup Family(b, "request_4k", {"request_4k_movie", "request_4k_tv"})
        r6 == Dependent(b, Ok(p5), "auto_request", "request",
                  <<"auto_request_movie", "request_movie">>,
                  <<"auto_request_tv", "request_tv">>)
        r7 == Dependent(b, r6, "auto_approve", "request",
                  <<"auto_approve_movie", "request_movie">>,
                  <<"auto_approve_tv", "request_tv">>)
        r8 == Dependent(b, r7, "auto_approve_4k", "request_4k",
                  <<"auto_approve_4k_movie", "request_4k_movie">>,
                  <<"auto_approve_4k_tv", "request_4k_tv">>)
    IN  r8

\* set_decoder testing the admin bit after the other flags
set_decoder_admin_late(b) ==
    IF b = 0 THEN Ok({"none"})
    ELSE LET r == DecodeFlags(b)
         IN  IF ~r.ok THEN r
             ELSE IF Has(b, "admin") THEN Ok({"admin"})
             ELSE r

set_decoder(b) ==
    IF b = 0 THEN Ok({"none"})
    ELSE IF Has(b, "admin") THEN Ok({"admin"})
    ELSE DecodeFlags(b)

set_reduce(S) == set_decoder(set_encoder(S))

\* ---------------------------------------------------------------------
\* Inputs of the permission codec
\* ---------------------------------------------------------------------

\* single bits a remote bitmask may carry: every flag value, and bit 0,
\* which no Permission member names
RawBits == { PermValue[p] : p \in Permission \ {"none"} } \cup {1}

RECURSIVE Sum(_)
Sum(S) == IF S = {} THEN 0 ELSE LET x == CHOOSE y \in S : TRUE IN x + Sum(S \ {x})

RECURSIVE SubsetsUpTo(_, _)
SubsetsUpTo(S, n) ==
    IF n = 0 THEN {{}}
    ELSE LET smaller == SubsetsUpTo(S, n - 1)
         IN  smaller \cup { T \cup {x} : T \in smaller, x \in S }

Bitmasks == { Sum(T) : T \in SubsetsUpTo(RawBits, MaxFlags) }

PermSets == SubsetsUpTo(Permission, MaxFlags)

Pending == [ok |-> FALSE, perms |-> {}, err |-> <<"pending">>]

PermInit ==
    /\ \/ encoded \in Bitmasks /\ declared = {}
       \/ encoded = 0 /\ declared \in PermSets
    /\ decoded = Pending
    /\ reduced = Pending
    /\ canon = Pending
    /\ canon2 = Pending

\* JellyseerrUsersSettings.from_remote: the defaultPermissions decoder
DecodeRemote ==
    /\ decoded = Pending
    /\ decoded' = set_decoder(encoded)
    /\ UNCHANGED <<encoded, declared, reduced, canon, canon2>>
    /\ UNCHANGED <<syncVars, mapVars, apiVars>>

\* the default_permissions validator
ReduceDeclared ==
    /\ reduced = Pending
    /\ reduced' = set_reduce(declared)
    /\ UNCHANGED <<encoded, declared, decoded, canon, canon2>>
    /\ UNCHANGED <<syncVars, mapVars, apiVars>>

\* set_reduce applied to a set the decoder returned
Canonicalize ==
    /\ decoded.ok
    /\ canon = Pending
    /\ canon' = set_reduce(decoded.perms)
    /\ UNCHANGED <<encoded, declared, decoded, reduced, canon2>>
    /\ UNCHANGED <<syncVars, mapVars, apiVars>>

\* set_reduce applied once more to its own result
CanonicalizeAgain ==
    /\ canon # Pending
    /\ canon2 = Pending
    /\ canon2' = (IF canon.ok THEN set_reduce(canon.perms) ELSE canon)
    /\ UNCHANGED <<encoded, declared, decoded, reduced, canon>>
    /\ UNCHANGED <<syncVars, mapVars, apiVars>>

PermNext == DecodeRemote \/ ReduceDeclared \/ Canonicalize \/ CanonicalizeAgain

\* ---------------------------------------------------------------------
\* Values: Optional[str] is <<>> (None) or <<s>>; a profile or tag reference
\* (Union[NonEmptyStr, int]) is a tagged record
\* ---------------------------------------------------------------------

None == <<>>
Some(s) == <<s>>

RefName(s) == [t |-> "str", s |-> s, n |-> 0]
RefId(n) == [t |-> "int", s |-> "", n |-> n]

\* the JSON value of a reference
RefValue(ref) == IF ref.t = "int" THEN ref.n ELSE ref.s

\* str(v) for an Optional[AnyHttpUrl]
Str(v) == IF v = None THEN "None" ELSE v[1]

\* decoder `lambda v: v or None` on a remote string
or_none(v) == IF v = "" THEN None ELSE Some(v)

\* encoder `lambda v: v or ""` on an Optional[str]
or_empty(v) == IF v = None \/ v = Some("") THEN "" ELSE v[1]

\* a dict: a function from keys to values
EmptyDict == [k \in {} |-> 0]
Put(d, k, v) == [x \in DOMAIN d \cup {k} |-> IF x = k THEN v ELSE d[x]]

\* dict.update / {**a, **b}
Merge(a, b) == [x \in DOMAIN a \cup DOMAIN b |-> IF x \in DOMAIN b THEN b[x] ELSE a[x]]

\* a string is a sequence of characters where its characters matter
CharOrd == [c \in {" ", ",", "e", "f", "n", "r"} |->
              CASE c = " " -> 32 [] c = "," -> 44 [] c = "e" -> 101
                [] c = "f" -> 102 [] c = "n" -> 110 [] c = "r" -> 114]

\* Python's < on str
RECURSIVE StrLess(_, _)
StrLess(a, b) ==
    IF b = <<>> THEN FALSE
    ELSE IF a = <<>> THEN TRUE
    ELSE IF CharOrd[Head(a)] # CharOrd[Head(b)] THEN CharOrd[Head(a)] < CharOrd[Head(b)]
    ELSE StrLess(Tail(a), Tail(b))

\* sorted(v) for a set of strings
RECURSIVE SortedStrs(_)
SortedStrs(S) ==
    IF S = {} THEN <<>>
    ELSE LET m == CHOOSE x \in S : \A y \in S \ {x} : StrLess(x, y)
         IN  <<m>> \o SortedStrs(S \ {m})

\* ",".join(strs)
RECURSIVE JoinComma(_)
JoinComma(strs) ==
    IF strs = <<>> THEN <<>>
    ELSE IF Len(strs) = 1 THEN strs[1]
    ELSE strs[1] \o <<",">> \o JoinComma(Tail(strs))

\* s.split(",")
RECURSIVE SplitComma(_)
SplitComma(s) ==
    LET commas == { i \in 1..Len(s) : s[i] = "," }
    IN  IF commas = {} THEN <<s>>
        ELSE LET i == CHOOSE x \in commas : \A y \in commas : x <= y
             IN  <<SubSeq(s, 1, i - 1)>> \o SplitComma(SubSeq(s, i + 1, Len(s)))

\* s.strip()
RECURSIVE Strip(_)
Strip(s) ==
    IF s = <<>> THEN s
    ELSE IF Head(s) = " " THEN Strip(Tail(s))
    ELSE IF s[Len(s)] = " " THEN Strip(SubSeq(s, 1, Len(s) - 1))
    ELSE s

\* ---------------------------------------------------------------------
\* api.py: the HTTP calls and the dry-run response simulator
\* ---------------------------------------------------------------------

HTTP_OK == 200
HTTP_CREATED == 201
HTTP_ACCEPTED == 202
HTTP_INTERNAL_SERVER_ERROR == 500

\* the statuses a contacted remote answers with
Statuses == {HTTP_OK, HTTP_CREATED, HTTP_INTERNAL_SERVER_ERROR}

\* the remote carries out a request it answers with a 2xx status
Accepted(status) == status >= 200 /\ status < 300

Url(path) == [path |-> path, id |-> 0, query |-> "", ids |-> {}]
UrlId(path, id) == [path |-> path, id |-> id, query |-> "", ids |-> {}]
UrlEnable(path, ids) == [path |-> path, id |-> 0, query |-> "enable", ids |-> ids]
UrlSync(path) == [path |-> path, id |-> 0, query |-> "sync", ids |-> {}]

\* res.json(): a JSON value. An object is known by its "message" and "error"
\* keys (each None or Some(text)), a list by its items, a string by its
\* sequence of characters.
JObject(message, error) ==
    [t |-> "object", message |-> message, error |-> error, items |-> <<>>, s |-> <<>>]
JList(items) ==
    [t |-> "list", message |-> None, error |-> None, items |-> items, s |-> <<>>]
JString(s) ==
    [t |-> "string", message |-> None, error |-> None, items |-> <<>>, s |-> s]
JNumber ==
    [t |-> "number", message |-> None, error |-> None, items |-> <<>>, s |-> <<>>]
JNull ==
    [t |-> "null", message |-> None, error |-> None, items |-> <<>>, s |-> <<>>]

\* the response of a contacted remote
Reply(status, body) == [status |-> status, body |-> body]

\* json.dumps(req), the content of a dry-run response, as res.json() reads it
Dumps(req) == IF req = None THEN JNull ELSE JObject(None, None)

\* _create_dryrun_response with status_code=None: the auto-detected status
create_dryrun_response(method) ==
    CASE method = "POST" -> HTTP_CREATED
      [] method = "PUT" -> HTTP_ACCEPTED
      [] method = "DELETE" -> HTTP_OK

\* an api_get that sends no X-Api-Key header whatever use_api_key says
api_get_keyless(url, use_api_key, expected_status_code, answer) ==
    [method |-> "GET", url |-> url, req |-> None, use_api_key |-> FALSE,
     expected |-> expected_status_code,
     sent |-> TRUE, status |-> answer.status, body |-> answer.body]

\* One call: `sent` tells whether a request went to the remote, `status` is
\* res.status_code and `body` is res.json(); req is None or Some(payload);
\* answer is the response a contacted remote gives.
\* a fetch that a dry run suppresses as it does the mutating calls
api_get_dry(url, use_api_key, expected_status_code, answer) ==
    [method |-> "GET", url |-> url, req |-> None, use_api_key |-> use_api_key,
     expected |-> expected_status_code,
     sent |-> ~dry_run, status |-> answer.status, body |-> answer.body]

api_get(url, use_api_key, expected_status_code, answer) ==
    [method |-> "GET", url |-> url, req |-> None, use_api_key |-> use_api_key,
     expected |-> expected_status_code,
     sent |-> TRUE, status |-> answer.status, body |-> answer.body]

api_post(url, req, use_api_key, expected_status_code, answer) ==
    [method |-> "POST", url |-> url, req |-> req, use_api_key |-> use_api_key,
     expected |-> expected_status_code,
     sent |-> ~dry_run,
     status |-> IF ~dry_run THEN answer.status ELSE create_dryrun_response("POST"),
     body |-> IF ~dry_run THEN answer.body ELSE Dumps(req)]

api_put(url, req, use_api_key, expected_status_code, answer) ==
    [method |-> "PUT", url |-> url, req |-> req, use_api_key |-> use_api_key,
     expected |-> expected_status_code,
     sent |-> ~dry_run,
     status |-> IF ~dry_run THEN answer.status ELSE create_dryrun_response("PUT"),
     body |-> IF ~dry_run THEN answer.body ELSE Dumps(req)]

api_delete(url, use_api_key, expected_status_code, answer) ==
    [method |-> "DELETE", url |-> url, req |-> None, use_api_key |-> use_api_key,
     expected |-> expected_status_code,
     sent |-> ~dry_run,
     status |-> IF ~dry_run THEN answer.status ELSE create_dryrun_response("DELETE"),
     body |-> IF ~dry_run THEN answer.body ELSE JObject(None, None)]

\* `if res.status_code != expected_status_code: api_error(...)`
Raises(call) == call.status # call.expected

Unsupported == "(Unsupported error JSON format) {}"

\* _api_error: ok is FALSE when subscripting res_json raised TypeError
api_error_message(res_json) ==
    IF res_json.t # "object" THEN [ok |-> FALSE, text |-> ""]
    ELSE IF res_json.message # None THEN [ok |-> TRUE, text |-> res_json.message[1]]
    ELSE IF res_json.error # None THEN [ok |-> TRUE, text |-> res_json.error[1]]
    ELSE [ok |-> TRUE, text |-> Unsupported]

\* `for error in res_json`: the elements the loop visits; ok is FALSE when
\* res_json is not iterable
Iterate(res_json) ==
    CASE res_json.t = "list" -> [ok |-> TRUE, items |-> res_json.items]
      [] res_json.t = "string" ->
            [ok |-> TRUE,
             items |-> [i \in 1..Len(res_json.s) |-> JString(<<res_json.s[i]>>)]]
      [] OTHER -> [ok |-> FALSE, items |-> <<>>]

Exception(kind, call, status_code, message) ==
    [kind |-> kind, method |-> call.method, url |-> call.url,
     status_code |-> status_code, where |-> "", message |-> message, names |-> {},
     candidates |-> {}]

\* api_error: the exception that leaves it for a call; message is the list of
\* the texts appended to error_message
api_error(call) ==
    LET res_json == call.body
        parse_response == call.method # "DELETE"
        one == api_error_message(res_json)
        each == Iterate(res_json)
        texts == [i \in 1..Len(each.items) |-> api_error_message(each.items[i])]
    IN  IF ~parse_response
        THEN Exception("JellyseerrAPIError", call, call.status, <<>>)
        ELSE IF one.ok
        THEN Exception("JellyseerrAPIError", call, call.status, <<one.text>>)
        ELSE IF each.ok /\ \A i \in 1..Len(texts) : texts[i].ok
        THEN Exception("JellyseerrAPIError", call, call.status,
                       [i \in 1..Len(texts) |-> texts[i].text])
        ELSE Exception("TypeError", call, 0, <<>>)

\* the request of a call reached the remote and was carried out
Applied(call) == call.sent /\ Accepted(call.status)

NoError ==
    [kind |-> "none", method |-> "", url |-> Url(""), status_code |-> 0, where |-> "",
     message |-> <<>>, names |-> {}, candidates |-> {}]

\* a ValueError about `what`; its message lists `names`, or `candidates` as
\* <<name, id>> pairs
ValueError(what, names, candidates) ==
    [kind |-> "ValueError", method |-> what, url |-> Url(""), status_code |-> 0,
     where |-> "", message |-> <<>>, names |-> names, candidates |-> candidates]

KeyError(what) ==
    [kind |-> "KeyError", method |-> what, url |-> Url(""), status_code |-> 0,
     where |-> "", message |-> <<>>, names |-> {}, candidates |-> {}]

\* the exception e, raised while `where` was running
At(e, where) == [e EXCEPT !.where = where]

\* ---------------------------------------------------------------------
\* The host's ConfigBase.get_update_remote_attrs, one remote-map entry at a
\* time: acc is <<changed, remote_attrs>> so far
\* ---------------------------------------------------------------------

NoChange == [changed |-> FALSE, attrs |-> EmptyDict]

DiffEntry(acc, differs, remote_key, value, set_if, set_unchanged) ==
    [changed |-> acc.changed \/ differs,
     attrs |-> IF (differs \/ set_unchanged) /\ set_if
               THEN Put(acc.attrs, remote_key, value)
               ELSE acc.attrs]

\* ---------------------------------------------------------------------
\* A Python dict built from a list: a sequence of <<key, value>> pairs in
\* insertion order, a later value for a key replacing the earlier one
\* ---------------------------------------------------------------------

HasKey(d, k) == \E i \in 1..Len(d) : d[i][1] = k

Lookup(d, k) == d[CHOOSE i \in 1..Len(d) : d[i][1] = k][2]

\* a dict that keeps the value a key already has
DictPut_keep(d, k, v) == IF HasKey(d, k) THEN d ELSE Append(d, <<k, v>>)

DictPut(d, k, v) ==
    IF HasKey(d, k)
    THEN [i \in 1..Len(d) |-> IF d[i][1] = k THEN <<k, v>> ELSE d[i]]
    ELSE Append(d, <<k, v>>)

RECURSIVE DictOf(_)
DictOf(pairs) ==
    IF pairs = <<>> THEN <<>>
    ELSE LET n == Len(pairs)
         IN  DictPut(DictOf(SubSeq(pairs, 1, n - 1)), pairs[n][1], pairs[n][2])

\* ---------------------------------------------------------------------
\* general.py: JellyseerrGeneralSettings
\* ---------------------------------------------------------------------

MainUrl == Url("/api/v1/settings/main")

\* from_remote: get_local_attrs over _remote_map
GeneralFromRemote(main) ==
    [application_url |-> or_none(main.applicationUrl),
     hide_available_media |-> main.hideAvailable]

\* a diff that reports a change whatever the two records hold
GeneralUpdateAttrs_always(d, r) ==
    [changed |-> TRUE, attrs |-> Put(EmptyDict, "hideAvailable", d.hide_available_media)]

\* get_update_remote_attrs over _remote_map
GeneralUpdateAttrs(d, r) ==
    LET e1 == DiffEntry(NoChange, d.application_url # r.application_url,
                        "applicationUrl", or_empty(d.application_url), TRUE, FALSE)
    IN  DiffEntry(e1, d.hide_available_media # r.hide_available_media,
                  "hideAvailable", d.hide_available_media, TRUE, FALSE)

\* ---------------------------------------------------------------------
\* users.py: JellyseerrUsersSettings
\* ---------------------------------------------------------------------

\* a root_encoder built from _get_remote_map() without the fetched periods
default_quotas_encoder_default(vs, movie_quota_days, series_quota_days) ==
    [movie |-> [quotaDays |-> 0, quotaLimit |-> vs.global_movie_request_limit],
     tv |-> [quotaDays |-> 0, quotaLimit |-> vs.global_series_request_limit]]

\* the root_encoder of both request-limit entries
default_quotas_encoder(vs, movie_quota_days, series_quota_days) ==
    [movie |-> [quotaDays |-> movie_quota_days,
                quotaLimit |-> vs.global_movie_request_limit],
     tv |-> [quotaDays |-> series_quota_days,
             quotaLimit |-> vs.global_series_request_limit]]

\* from_remote: ok is FALSE when the defaultPermissions decoder raised
UsersFromRemote(main) ==
    LET perms == set_decoder(main.defaultPermissions)
    IN  [ok |-> perms.ok,
         v |-> [enable_local_signin |-> main.localLogin,
                global_movie_request_limit |-> main.defaultQuotas.movie.quotaLimit,
                global_series_request_limit |-> main.defaultQuotas.tv.quotaLimit,
                default_permissions |-> perms.perms]]

UsersUpdateAttrs(d, r, movie_quota_days, series_quota_days) ==
    LET quotas == default_quotas_encoder(d, movie_quota_days, series_quota_days)
        e1 == DiffEntry(NoChange, d.enable_local_signin # r.enable_local_signin,
                        "localLogin", d.enable_local_signin, TRUE, FALSE)
        e2 == DiffEntry(e1, d.global_movie_request_limit # r.global_movie_request_limit,
                        "defaultQuotas", quotas, TRUE, FALSE)
        e3 == DiffEntry(e2, d.global_series_request_limit # r.global_series_request_limit,
                        "defaultQuotas", quotas, TRUE, FALSE)
    IN  DiffEntry(e3, d.default_permissions # r.default_permissions,
                  "defaultPermissions", set_encoder(d.default_permissions), TRUE, FALSE)

\* ---------------------------------------------------------------------
\* jellyfin.py: JellyseerrJellyfinSettings
\* ---------------------------------------------------------------------

JellyfinUrl == Url("/api/v1/settings/jellyfin")
LibraryPath == "/api/v1/settings/jellyfin/library"

\* encoder `lambda v: str(v) or ""`
external_url_encoder(v) == IF Str(v) = "" THEN "" ELSE Str(v)

\* decoder `lambda v: set(li["name"] for li in v if li["enabled"])`
libraries_decoder(v) == { v[i].name : i \in { j \in 1..Len(v) : v[j].enabled } }

\* encoder `lambda v: set(li["id"] for li in libraries if li["name"] in v)`
\* an enable list of every library there is
libraries_encoder_all(libraries, v) == { libraries[i].id : i \in 1..Len(libraries) }

libraries_encoder(libraries, v) ==
    { libraries[i].id : i \in { j \in 1..Len(libraries) : libraries[j].name \in v } }

JellyfinFromRemote(jf) ==
    [external_url |-> or_none(jf.externalHostname),
     libraries |-> libraries_decoder(jf.libraries)]

JellyfinUpdateAttrs(d, r, libraries) ==
    LET e1 == DiffEntry(NoChange, d.external_url # r.external_url,
                        "externalHostname", external_url_encoder(d.external_url),
                        TRUE, FALSE)
    IN  DiffEntry(e1, d.libraries # r.libraries,
                  "libraries", libraries_encoder(libraries, d.libraries), TRUE, FALSE)

\* `del remote_attrs["libraries"]`
Del(d, k) == [x \in DOMAIN d \ {k} |-> d[x]]

\* ---------------------------------------------------------------------
\* services/sonarr.py: Sonarr and SonarrSettings
\* ---------------------------------------------------------------------

SonarrPath == "/api/v1/settings/sonarr"
SonarrTestUrl == Url("/api/v1/settings/sonarr/test")

\* sorted(ids) for a set of integers
RECURSIVE SortedInts(_)
SortedInts(S) ==
    IF S = {} THEN <<>>
    ELSE LET m == CHOOSE x \in S : \A y \in S : x <= y
         IN  <<m>> \o SortedInts(S \ {m})

\* a value with its Python type; ok is FALSE for a raised exception
Val(type, v) == [ok |-> TRUE, type |-> type, v |-> v]
Raised(what) == [ok |-> FALSE, type |-> what, v |-> 0]

\* sonarr.py: `lambda v: language_profile_ids[v]`
language_profile_encoder(language_profile_ids, v) ==
    IF v.t = "str" /\ HasKey(language_profile_ids, v.s)
    THEN Val("ref", RefId(Lookup(language_profile_ids, v.s)))
    ELSE Raised("KeyError")

\* sonarr.py: `lambda v: sorted(tag_ids[tag] for tag in v)`
tags_encoder(tag_ids, v) ==
    IF \A tag \in v : tag.t = "str" /\ HasKey(tag_ids, tag.s)
    THEN Val("list", SortedInts({ Lookup(tag_ids, tag.s) : tag \in v }))
    ELSE Raised("KeyError")

\* bool(v) for an Optional[Union[NonEmptyStr, int]]
Truthy(v) == v # None /\ ~(v[1].t = "int" /\ v[1].n = 0)

\* _from_remote: get_local_attrs over _get_remote_map(); quality_profile is
\* set from activeProfileId and then again from activeProfileName, and the
\* optional entries are skipped when the remote has no such key
SonarrFromRemote(api_service) ==
    [instance_name |-> None,
     hostname |-> api_service.hostname,
     api_key |-> Some(api_service.apiKey),
     root_folder |-> api_service.activeDirectory,
     quality_profile |-> RefName(api_service.activeProfileName),
     language_profile |-> RefId(api_service.activeLanguageProfileId),
     tags |-> { RefId(api_service.tags[i]) : i \in 1..Len(api_service.tags) },
     anime_root_folder |-> or_none(api_service.activeAnimeDirectory),
     anime_quality_profile |->
        IF "activeAnimeProfileName" \in DOMAIN api_service
        THEN Some(RefName(api_service.activeAnimeProfileName))
        ELSE IF "activeAnimeProfileId" \in DOMAIN api_service
        THEN Some(RefId(api_service.activeAnimeProfileId))
        ELSE None,
     anime_language_profile |->
        IF "activeAnimeLanguageProfileId" \in DOMAIN api_service
        THEN Some(RefId(api_service.activeAnimeLanguageProfileId))
        ELSE None,
     anime_tags |-> { RefId(api_service.animeTags[i]) : i \in 1..Len(api_service.animeTags) }]

\* SonarrSettings.from_remote: the definitions dict, keyed by name
RECURSIVE SonarrDefinitions(_)
SonarrDefinitions(api_services) ==
    IF api_services = <<>> THEN <<>>
    ELSE LET n == Len(api_services)
         IN  DictPut(SonarrDefinitions(SubSeq(api_services, 1, n - 1)),
                     api_services[n].name, SonarrFromRemote(api_services[n]))

\* update_remote: service_ids
RECURSIVE ServiceIds(_)
ServiceIds(api_services) ==
    IF api_services = <<>> THEN <<>>
    ELSE LET n == Len(api_services)
         IN  DictPut(ServiceIds(SubSeq(api_services, 1, n - 1)),
                     api_services[n].name, api_services[n].id)

\* state.secrets.sonarr: the API keys of the Sonarr instances the host manages
SonarrSecrets == << <<"sonarr1", "linked-key">> >>

\* _get_api_key: ok is FALSE for the KeyError of an unknown instance
get_api_key(service) ==
    IF service.instance_name # None /\ service.api_key = None
    THEN IF HasKey(SonarrSecrets, service.instance_name[1])
         THEN [ok |-> TRUE, v |-> Lookup(SonarrSecrets, service.instance_name[1])]
         ELSE [ok |-> FALSE, v |-> ""]
    ELSE [ok |-> TRUE, v |-> service.api_key[1]]

\* a lookup that hands every reference back as it is
render_get_resource_verbatim(resource_ids, resource_ref, required) ==
    IF required /\ resource_ref.t = "str" /\ ~HasKey(resource_ids, resource_ref.s)
    THEN [ok |-> FALSE, v |-> resource_ref]
    ELSE [ok |-> TRUE, v |-> resource_ref]

\* _render_get_resource: ok is FALSE when it raised ValueError
render_get_resource(resource_ids, resource_ref, required) ==
    IF resource_ref.t = "int"
    THEN LET hits == { i \in 1..Len(resource_ids) : resource_ids[i][2] = resource_ref.n }
         IN  IF hits # {}
             THEN [ok |-> TRUE,
                   v |-> RefName(resource_ids[CHOOSE i \in hits : \A j \in hits : i <= j][1])]
             ELSE IF required THEN [ok |-> FALSE, v |-> resource_ref]
             ELSE [ok |-> TRUE, v |-> resource_ref]
    ELSE IF ~required \/ HasKey(resource_ids, resource_ref.s)
         THEN [ok |-> TRUE, v |-> resource_ref]
         ELSE [ok |-> FALSE, v |-> resource_ref]

\* `', '.join(f'{repr(rn)} ({rid})' for rn, rid in resource_ids.items())`
Candidates(resource_ids) ==
    { <<resource_ids[i][1], resource_ids[i][2]>> : i \in 1..Len(resource_ids) }

\* _render: ok is FALSE when it raised, error being the ValueError
Render(service, api_key, root_folders, quality_profile_ids, language_profile_ids, tag_ids, required) ==
    LET qp == render_get_resource(quality_profile_ids, service.quality_profile, required)
        lp == render_get_resource(language_profile_ids, service.language_profile, required)
        tags == [tag \in service.tags |-> render_get_resource(tag_ids, tag, required)]
        aqp == IF Truthy(service.anime_quality_profile)
               THEN LET r == render_get_resource(quality_profile_ids,
                                                 service.anime_quality_profile[1], required)
                    IN  [ok |-> r.ok, v |-> Some(r.v)]
               ELSE [ok |-> TRUE, v |-> service.anime_quality_profile]
        alp == IF Truthy(service.anime_language_profile)
               THEN LET r == render_get_resource(language_profile_ids,
                                                 service.anime_language_profile[1], required)
                    IN  [ok |-> r.ok, v |-> Some(r.v)]
               ELSE [ok |-> TRUE, v |-> service.anime_language_profile]
        atags == [tag \in service.anime_tags |-> render_get_resource(tag_ids, tag, required)]
        rendered ==
            [service EXCEPT !.api_key = Some(api_key),
                            !.quality_profile = qp.v,
                            !.language_profile = lp.v,
                            !.tags = { tags[tag].v : tag \in service.tags },
                            !.anime_quality_profile = aqp.v,
                            !.anime_language_profile = alp.v,
                            !.anime_tags = { atags[tag].v : tag \in service.anime_tags }]
        Fail(e) == [ok |-> FALSE, v |-> service, error |-> e]
    IN  IF required /\ service.root_folder \notin root_folders
        THEN Fail(ValueError("root folder", root_folders, {}))
        ELSE IF ~qp.ok
        THEN Fail(ValueError("quality profile", {}, Candidates(quality_profile_ids)))
        ELSE IF ~lp.ok
        THEN Fail(ValueError("language profile", {}, Candidates(language_profile_ids)))
        ELSE IF \E tag \in service.tags : ~tags[tag].ok
        THEN Fail(ValueError("tag", {}, Candidates(tag_ids)))
        ELSE IF ~aqp.ok
        THEN Fail(ValueError("quality profile", {}, Candidates(quality_profile_ids)))
        ELSE IF ~alp.ok
        THEN Fail(ValueError("language profile", {}, Candidates(language_profile_ids)))
        ELSE IF \E tag \in service.anime_tags : ~atags[tag].ok
        THEN Fail(ValueError("tag", {}, Candidates(tag_ids)))
        ELSE [ok |-> TRUE, v |-> rendered, error |-> NoError]

\* the activeProfileId encoder; ok is FALSE for the KeyError of an unknown name
quality_profile_encoder(quality_profile_ids, v) ==
    IF quality_profile_ids # <<>> /\ v.t = "str"
    THEN IF HasKey(quality_profile_ids, v.s)
         THEN [ok |-> TRUE, type |-> "ref", v |-> RefId(Lookup(quality_profile_ids, v.s))]
         ELSE [ok |-> FALSE, type |-> "KeyError", v |-> 0]
    ELSE [ok |-> TRUE, type |-> "ref", v |-> v]

\* the activeAnimeProfileId encoder `lambda v: quality_profile_ids[v]`
anime_quality_profile_encoder(quality_profile_ids, v) ==
    IF v.t = "str" /\ HasKey(quality_profile_ids, v.s)
    THEN Val("ref", RefId(Lookup(quality_profile_ids, v.s)))
    ELSE Raised("KeyError")

\* the value an encoder result puts in the payload
Encoded(result) ==
    IF ~result.ok THEN "KeyError"
    ELSE IF result.type = "ref" THEN RefValue(result.v)
    ELSE result.v

\* get_update_remote_attrs over _get_remote_map(quality_profile_ids,
\* language_profile_ids, tag_ids)
SonarrUpdateAttrs(d, r, quality_profile_ids, language_profile_ids, tag_ids, set_unchanged) ==
    LET e1 == DiffEntry(NoChange, d.hostname # r.hostname,
                        "hostname", d.hostname, TRUE, set_unchanged)
        e2 == DiffEntry(e1, d.api_key # r.api_key, "apiKey", d.api_key[1],
                        TRUE, set_unchanged)
        e3 == DiffEntry(e2, d.root_folder # r.root_folder,
                        "activeDirectory", d.root_folder, TRUE, set_unchanged)
        e4 == DiffEntry(e3, d.quality_profile # r.quality_profile, "activeProfileId",
                        Encoded(quality_profile_encoder(quality_profile_ids,
                                                        d.quality_profile)),
                        TRUE, set_unchanged)
        e5 == DiffEntry(e4, d.quality_profile # r.quality_profile, "activeProfileName",
                        RefValue(d.quality_profile), TRUE, set_unchanged)
        e6 == DiffEntry(e5, d.language_profile # r.language_profile,
                        "activeLanguageProfileId",
                        Encoded(language_profile_encoder(language_profile_ids,
                                                         d.language_profile)),
                        TRUE, set_unchanged)
        e7 == DiffEntry(e6, d.tags # r.tags, "tags",
                        Encoded(tags_encoder(tag_ids, d.tags)), TRUE, set_unchanged)
        e8 == DiffEntry(e7, d.anime_root_folder # r.anime_root_folder,
                        "activeAnimeDirectory", or_empty(d.anime_root_folder),
                        TRUE, set_unchanged)
        e9 == DiffEntry(e8, d.anime_quality_profile # r.anime_quality_profile,
                        "activeAnimeProfileId",
                        IF Truthy(d.anime_quality_profile)
                        THEN Encoded(anime_quality_profile_encoder(
                                        quality_profile_ids, d.anime_quality_profile[1]))
                        ELSE 0,
                        Truthy(d.anime_quality_profile), set_unchanged)
        e10 == DiffEntry(e9, d.anime_quality_profile # r.anime_quality_profile,
                         "activeAnimeProfileName",
                         IF Truthy(d.anime_quality_profile)
                         THEN RefValue(d.anime_quality_profile[1]) ELSE 0,
                         Truthy(d.anime_quality_profile), set_unchanged)
        e11 == DiffEntry(e10, d.anime_language_profile # r.anime_language_profile,
                         "activeAnimeLanguageProfileId",
                         IF Truthy(d.anime_language_profile)
                         THEN Encoded(language_profile_encoder(
                                         language_profile_ids, d.anime_language_profile[1]))
                         ELSE 0,
                         Truthy(d.anime_language_profile), set_unchanged)
    IN  DiffEntry(e11, d.anime_tags # r.anime_tags, "animeTags",
                  Encoded(tags_encoder(tag_ids, d.anime_tags)), TRUE, set_unchanged)

\* _create_remote: name plus get_create_remote_attrs (every entry is sent
\* unless its set_if excludes it)
SonarrCreateAttrs(d, quality_profile_ids, language_profile_ids, tag_ids, service_name) ==
    Put(SonarrUpdateAttrs(d, d, quality_profile_ids, language_profile_ids, tag_ids,
                          TRUE).attrs,
        "name", service_name)

\* update_remote: `set(api_rootfolder["path"] for api_rootfolder in ...)`
RootFolders(api_rootfolders) ==
    { api_rootfolders[i].path : i \in 1..Len(api_rootfolders) }

\* update_remote: `{api_profile["name"]: api_profile["id"] for api_profile in ...}`
ProfileIds(api_profiles) ==
    DictOf([i \in 1..Len(api_profiles) |-> <<api_profiles[i].name, api_profiles[i].id>>])

\* update_remote: `{api_profile["label"]: api_profile["id"] for api_profile in ...}`
TagLabelIds(api_tags) ==
    DictOf([i \in 1..Len(api_tags) |-> <<api_tags[i].label, api_tags[i].id>>])

\* a definition that is never found on the remote
InRemote_never(definitions, service_name) == FALSE

\* `service_name not in remote.definitions`, negated
InRemote(definitions, service_name) == HasKey(definitions, service_name)

\* a second loop that deletes whatever delete_unmanaged says
DeleteTodo_always(delete_unmanaged, unmanaged) == unmanaged

\* the unmanaged definitions the second loop deletes
DeleteTodo(delete_unmanaged, unmanaged) == IF delete_unmanaged THEN unmanaged ELSE <<>>

\* ---------------------------------------------------------------------
\* The remote: what a request it accepts does to its state
\* ---------------------------------------------------------------------

RemotePostMain(rm, attrs) == [rm EXCEPT !.main = Merge(@, attrs)]

RemotePostJellyfin(rm, attrs) == [rm EXCEPT !.jellyfin = Merge(@, attrs)]

\* GET /api/v1/settings/jellyfin/library?enable=<ids>
RemoteEnableLibraries(rm, ids) ==
    LET libs == rm.jellyfin.libraries
    IN  [rm EXCEPT !.jellyfin.libraries =
            [i \in 1..Len(libs) |-> [libs[i] EXCEPT !.enabled = (libs[i].id \in ids)]]]

\* the libraries of the Jellyfin server the remote is linked with
JellyfinLibraries ==
    <<[id |-> "l1", name |-> "Movies", enabled |-> FALSE],
      [id |-> "l2", name |-> "Shows", enabled |-> FALSE]>>

\* GET /api/v1/settings/jellyfin/library?sync=true
RemoteSyncLibraries(rm) ==
    IF rm.jellyfin.libraries = <<>>
    THEN [rm EXCEPT !.jellyfin.libraries = JellyfinLibraries]
    ELSE rm

\* POST /api/v1/settings/initialize
RemoteInitialize(rm) == [rm EXCEPT !.initialized = TRUE]

NewId(api_services) ==
    1 + (CHOOSE m \in {0} \cup { api_services[i].id : i \in 1..Len(api_services) } :
            \A i \in 1..Len(api_services) : api_services[i].id <= m)

\* the keys a stored Sonarr definition always has
SonarrDefaults == [activeAnimeDirectory |-> "", tags |-> <<>>, animeTags |-> <<>>]

RemoteSonarrCreate(rm, attrs) ==
    [rm EXCEPT !.sonarr = Append(@, Put(Merge(SonarrDefaults, attrs), "id", NewId(@)))]

RemoteSonarrUpdate(rm, id, attrs) ==
    [rm EXCEPT !.sonarr =
        [i \in 1..Len(@) |-> IF @[i].id = id THEN Merge(@[i], attrs) ELSE @[i]]]

RemoteSonarrDelete(rm, id) ==
    [rm EXCEPT !.sonarr = SelectSeq(@, LAMBDA s : s.id # id)]

\* the answer of POST /api/v1/settings/sonarr/test
Metadata ==
    [rootFolders |-> <<[path |-> "/tv"]>>,
     profiles |-> <<[name |-> "HD-1080p", id |-> 4], [name |-> "SD", id |-> 1]>>,
     languageProfiles |-> <<[name |-> "English", id |-> 1]>>,
     tags |-> <<[label |-> "anime", id |-> 1], [label |-> "hd", id |-> 2]>>]

\* the body of a response with the given status
StdBody(status) ==
    IF Accepted(status) THEN JObject(None, None)
    ELSE JObject(Some("Internal Server Error"), None)

Replies == { Reply(s, StdBody(s)) : s \in Statuses }

\* the auth endpoint's error for an instance that already has a Jellyfin
\* server configured
AlreadyConfigured == "Jellyfin hostname already configured"

\* ---------------------------------------------------------------------
\* The reconciliation pass
\* ---------------------------------------------------------------------

\* the answers of the remote to a run of calls with the given expected
\* statuses: each as expected, or all as expected but one
Answers(expected) ==
    { [i \in 1..Len(expected) |->
          IF i = k THEN Reply(s, StdBody(s))
          ELSE Reply(expected[i], StdBody(expected[i]))] :
        k \in 0..Len(expected), s \in Statuses }

\* the calls made up to and including the first one that raises
Prefix(cs) ==
    LET bad == { i \in 1..Len(cs) : Raises(cs[i]) }
    IN  IF bad = {} THEN cs
        ELSE SubSeq(cs, 1, CHOOSE i \in bad : \A j \in bad : i <= j)

\* JellyseerrSettings.update_remote: the sections in the order of the list
SectionOrder == <<"jellyfin", "general", "users", "services">>

NextSection(section) ==
    CASE section = "jellyfin" -> "general"
      [] section = "general" -> "users"
      [] section = "users" -> "services"
      [] section = "services" -> "done"

\* an any() that looks at the last element only
any_last(values) == values # <<>> /\ values[Len(values)]

\* `any([...])` over the list of the values the sections returned
any(values) == \E i \in 1..Len(values) : values[i]

\* a pass that catches a section's exception and goes on with the next one
AfterRaise_continue(section) == NextSection(section)

\* where the pass continues when a section's update_remote raises: nothing in
\* JellyseerrSettings.update_remote catches, so the exception leaves it
AfterRaise(section) == "error"

\* a section's update_remote raised e after making newCalls
Raise(section, newCalls, newRemote, e) ==
    /\ pc' = AfterRaise(section)
    /\ calls' = calls \o newCalls
    /\ remote' = newRemote
    /\ err' = At(e, section)
    /\ UNCHANGED <<results, svc>>

\* a section's update_remote returned value after making newCalls
Return(section, newCalls, newRemote, value) ==
    /\ pc' = NextSection(section)
    /\ calls' = calls \o newCalls
    /\ remote' = newRemote
    /\ results' = Append(results, value)
    /\ UNCHANGED <<err, svc>>

PublicUrl == Url("/api/v1/settings/public")
AuthUrl == Url("/api/v1/auth/jellyfin")
InitializeUrl == Url("/api/v1/settings/initialize")

\* the host asks JellyseerrJellyfinSettings._is_initialized whether the
\* instance needs the bootstrap
IsInitialized ==
    /\ pc = "is_initialized"
    /\ \E a1 \in Replies :
        LET c1 == api_get(PublicUrl, FALSE, HTTP_OK, a1)
        IN  /\ calls' = Append(calls, c1)
            /\ IF Raises(c1)
               THEN pc' = "error" /\ err' = At(api_error(c1), "is_initialized")
               ELSE /\ pc' = (IF remote.initialized THEN "from_remote" ELSE "initialize")
                    /\ err' = err
    /\ UNCHANGED <<dry_run, config, remote, remote0, snapshot, invoked, results, svc>>
    /\ UNCHANGED <<permVars, mapVars, apiVars>>

BootstrapAttrs == <<"server_url", "username", "password", "email_address", "libraries">>

\* `not attr_value or (isinstance(attr_value, str) and not attr_value.strip())`
NotDefined(attr_name, attr_value) ==
    IF attr_name = "libraries" THEN attr_value = {}
    ELSE attr_value = None \/ attr_value[1] = <<>> \/ Strip(attr_value[1]) = <<>>

\* a pre-check that stops at the first attribute that is not defined
missing_attrs_first(jellyfin) ==
    LET all == SelectSeq(BootstrapAttrs,
                         LAMBDA attr_name : NotDefined(attr_name, jellyfin[attr_name]))
    IN  IF all = <<>> THEN all ELSE <<all[1]>>

\* _initialize: missing_attrs
missing_attrs(jellyfin) ==
    SelectSeq(BootstrapAttrs, LAMBDA attr_name : NotDefined(attr_name, jellyfin[attr_name]))

\* `all(word in error_message for word in ("Jellyfin", "configured"))`
MentionsConfigured(e) == \E i \in 1..Len(e.message) : e.message[i] = AlreadyConfigured

RuntimeError ==
    [kind |-> "RuntimeError", method |-> "POST", url |-> AuthUrl, status_code |-> 0,
     where |-> "", message |-> <<>>, names |-> {}, candidates |-> {}]

\* JellyseerrJellyfinSettings._initialize
Initialize ==
    /\ pc = "initialize"
    /\ LET self == config.jellyfin
           missing == missing_attrs(self)
           Fails(newCalls, newRemote, e) ==
               /\ pc' = "error"
               /\ calls' = calls \o newCalls
               /\ remote' = newRemote
               /\ err' = At(e, "initialize")
       IN  IF missing # <<>>
           THEN Fails(<<>>, remote,
                      ValueError("initialise", { missing[i] : i \in 1..Len(missing) }, {}))
           ELSE \E a \in Answers(<<HTTP_OK, HTTP_OK, HTTP_OK, HTTP_OK>>)
                         \cup { [i \in 1..4 |->
                                   IF i = 1
                                   THEN Reply(HTTP_INTERNAL_SERVER_ERROR,
                                              JObject(Some(AlreadyConfigured), None))
                                   ELSE Reply(HTTP_OK, StdBody(HTTP_OK))] } :
                LET c1 == api_post(AuthUrl,
                                   Some([username |-> self.username[1],
                                         password |-> self.password[1],
                                         hostname |-> self.server_url[1],
                                         email |-> self.email_address[1]]),
                                   FALSE, HTTP_OK, a[1])
                    e1 == api_error(c1)
                    c2 == api_get(UrlSync(LibraryPath), FALSE, HTTP_OK, a[2])
                    rm2 == IF Applied(c2) THEN RemoteSyncLibraries(remote) ELSE remote
                    api_libraries == rm2.jellyfin.libraries
                    library_names == { api_libraries[i].name : i \in 1..Len(api_libraries) }
                    enabled_library_ids == libraries_encoder(api_libraries, self.libraries)
                    c3 == api_get(UrlEnable(LibraryPath, enabled_library_ids),
                                  FALSE, HTTP_OK, a[3])
                    rm3 == IF Applied(c3)
                           THEN RemoteEnableLibraries(rm2, enabled_library_ids) ELSE rm2
                    c4 == api_post(InitializeUrl, None, FALSE, HTTP_OK, a[4])
                    rm4 == IF Applied(c4) THEN RemoteInitialize(rm3) ELSE rm3
                IN  IF Raises(c1)
                    THEN IF e1.kind = "JellyseerrAPIError"
                            /\ e1.status_code = HTTP_INTERNAL_SERVER_ERROR
                            /\ MentionsConfigured(e1)
                         THEN Fails(<<c1>>, remote, RuntimeError)
                         ELSE Fails(<<c1>>, remote, e1)
                    ELSE IF Raises(c2)
                    THEN Fails(<<c1, c2>>, rm2, api_error(c2))
                    ELSE IF ~(self.libraries \subseteq library_names)
                    THEN Fails(<<c1, c2>>, rm2, ValueError("library", library_names, {}))
                    ELSE IF Raises(c3)
                    THEN Fails(<<c1, c2, c3>>, rm3, api_error(c3))
                    ELSE IF Raises(c4)
                    THEN Fails(<<c1, c2, c3, c4>>, rm4, api_error(c4))
                    ELSE /\ pc' = "from_remote"
                         /\ calls' = calls \o <<c1, c2, c3, c4>>
                         /\ remote' = rm4
                         /\ err' = err
    /\ UNCHANGED <<dry_run, config, remote0, snapshot, invoked, results, svc>>
    /\ UNCHANGED <<permVars, mapVars, apiVars>>

\* the host's from_remote: every section's from_remote, in field order
FromRemote ==
    /\ pc = "from_remote"
    /\ \E a \in Answers(<<HTTP_OK, HTTP_OK, HTTP_OK, HTTP_OK>>) :
        LET c1 == api_get(MainUrl, TRUE, HTTP_OK, a[1])
            c2 == api_get(JellyfinUrl, TRUE, HTTP_OK, a[2])
            c3 == api_get(MainUrl, TRUE, HTTP_OK, a[3])
            c4 == api_get(Url(SonarrPath), TRUE, HTTP_OK, a[4])
            users == UsersFromRemote(remote.main)
            cs == IF ~Raises(c1) /\ ~Raises(c2) /\ ~Raises(c3) /\ ~users.ok
                  THEN <<c1, c2, c3>>
                  ELSE Prefix(<<c1, c2, c3, c4>>)
            last == cs[Len(cs)]
        IN  /\ calls' = calls \o cs
            /\ IF Raises(last)
               THEN /\ pc' = "error"
                    /\ err' = At(api_error(last), "from_remote")
                    /\ UNCHANGED snapshot
               ELSE IF ~users.ok
               THEN /\ pc' = "error"
                    /\ err' = At(ValueError("default_permissions", {}, {}), "from_remote")
                    /\ UNCHANGED snapshot
               ELSE /\ pc' = "jellyfin"
                    /\ err' = err
                    /\ snapshot' =
                          [general |-> GeneralFromRemote(remote.main),
                           jellyfin |-> JellyfinFromRemote(remote.jellyfin),
                           users |-> users.v,
                           sonarr |-> [definitions |-> SonarrDefinitions(remote.sonarr)]]
    /\ UNCHANGED <<dry_run, config, remote, remote0, invoked, results, svc>>
    /\ UNCHANGED <<permVars, mapVars, apiVars>>

\* JellyseerrJellyfinSettings.update_remote
UpdateJellyfin ==
    /\ pc = "jellyfin"
    /\ invoked' = Append(invoked, "jellyfin")
    /\ \E a \in Answers(<<HTTP_OK, HTTP_OK, HTTP_OK>>) :
        LET c1 == api_get(Url(LibraryPath), TRUE, HTTP_OK, a[1])
            diff == JellyfinUpdateAttrs(config.jellyfin, snapshot.jellyfin,
                                        remote.jellyfin.libraries)
            enable == "libraries" \in DOMAIN diff.attrs
            c2 == api_get(UrlEnable(LibraryPath,
                                    IF enable THEN diff.attrs["libraries"] ELSE {}),
                          TRUE, HTTP_OK, a[2])
            rm2 == IF enable /\ Applied(c2)
                   THEN RemoteEnableLibraries(remote, c2.url.ids) ELSE remote
            remote_attrs == Del(diff.attrs, "libraries")
            c3 == api_post(JellyfinUrl, Some(remote_attrs), TRUE, HTTP_OK, a[3])
            rm3 == IF Applied(c3) THEN RemotePostJellyfin(rm2, remote_attrs) ELSE rm2
        IN  IF Raises(c1)
            THEN Raise("jellyfin", <<c1>>, remote, api_error(c1))
            ELSE IF enable /\ Raises(c2)
            THEN Raise("jellyfin", <<c1, c2>>, rm2, api_error(c2))
            ELSE IF diff.changed /\ Raises(c3)
            THEN Raise("jellyfin", <<c1>> \o (IF enable THEN <<c2>> ELSE <<>>) \o <<c3>>,
                       rm3, api_error(c3))
            ELSE IF diff.changed
            THEN Return("jellyfin", <<c1>> \o (IF enable THEN <<c2>> ELSE <<>>) \o <<c3>>,
                        rm3, TRUE)
            ELSE Return("jellyfin", <<c1>>, remote, FALSE)
    /\ UNCHANGED <<dry_run, config, remote0, snapshot>>
    /\ UNCHANGED <<permVars, mapVars, apiVars>>

\* JellyseerrGeneralSettings.update_remote
UpdateGeneral ==
    /\ pc = "general"
    /\ invoked' = Append(invoked, "general")
    /\ \E a1 \in Replies :
        LET diff == GeneralUpdateAttrs(config.general, snapshot.general)
            c1 == api_post(MainUrl, Some(diff.attrs), TRUE, HTTP_CREATED, a1)
            rm1 == IF Applied(c1) THEN RemotePostMain(remote, diff.attrs) ELSE remote
        IN  IF diff.changed /\ Raises(c1)
            THEN Raise("general", <<c1>>, rm1, api_error(c1))
            ELSE IF diff.changed
            THEN Return("general", <<c1>>, rm1, TRUE)
            ELSE Return("general", <<>>, remote, FALSE)
    /\ UNCHANGED <<dry_run, config, remote0, snapshot>>
    /\ UNCHANGED <<permVars, mapVars, apiVars>>

\* JellyseerrUsersSettings.update_remote
UpdateUsers ==
    /\ pc = "users"
    /\ invoked' = Append(invoked, "users")
    /\ \E a \in Answers(<<HTTP_OK, HTTP_CREATED>>) :
        LET c1 == api_get(MainUrl, TRUE, HTTP_OK, a[1])
            default_quotas == remote.main.defaultQuotas
            diff == UsersUpdateAttrs(config.users, snapshot.users,
                                     default_quotas.movie.quotaDays,
                                     default_quotas.tv.quotaDays)
            c2 == api_post(MainUrl, Some(diff.attrs), TRUE, HTTP_CREATED, a[2])
            rm2 == IF Applied(c2) THEN RemotePostMain(remote, diff.attrs) ELSE remote
        IN  IF Raises(c1)
            THEN Raise("users", <<c1>>, remote, api_error(c1))
            ELSE IF diff.changed /\ Raises(c2)
            THEN Raise("users", <<c1, c2>>, rm2, api_error(c2))
            ELSE IF diff.changed
            THEN Return("users", <<c1, c2>>, rm2, TRUE)
            ELSE Return("users", <<c1>>, remote, FALSE)
    /\ UNCHANGED <<dry_run, config, remote0, snapshot>>
    /\ UNCHANGED <<permVars, mapVars, apiVars>>

\* SonarrSettings.update_remote, up to the loop over the definitions
ServicesBegin ==
    /\ pc = "services"
    /\ invoked' = Append(invoked, "services")
    /\ \E a1 \in Replies :
        LET c1 == api_get(Url(SonarrPath), TRUE, HTTP_OK, a1)
        IN  IF Raises(c1)
            THEN Raise("services", <<c1>>, remote, api_error(c1))
            ELSE /\ pc' = "services_definitions"
                 /\ calls' = Append(calls, c1)
                 /\ svc' = [service_ids |-> ServiceIds(remote.sonarr), i |-> 1,
                            changed |-> FALSE]
                 /\ UNCHANGED <<remote, results, err>>
    /\ UNCHANGED <<dry_run, config, remote0, snapshot>>
    /\ UNCHANGED <<permVars, mapVars, apiVars>>

\* a definition whose reconciliation skips over its own exception and lets
\* the loop go on
RaiseEntry_skip(newCalls, newRemote, e) ==
    /\ pc' = pc
    /\ calls' = calls \o newCalls
    /\ remote' = newRemote
    /\ err' = At(e, "services")
    /\ svc' = [svc EXCEPT !.i = @ + 1]
    /\ UNCHANGED results

\* an exception raised while a definition is reconciled: nothing in the loop
\* catches it, so it leaves SonarrSettings.update_remote
RaiseEntry(newCalls, newRemote, e) == Raise("services", newCalls, newRemote, e)

\* SonarrSettings.update_remote: one turn of `for service_name, service in
\* self.definitions.items()`
ServicesDefinition ==
    /\ pc = "services_definitions"
    /\ svc.i <= Len(config.sonarr.definitions)
    /\ \E a1, a2 \in Replies :
        LET service_name == config.sonarr.definitions[svc.i][1]
            service == config.sonarr.definitions[svc.i][2]
            api_key == get_api_key(service)
            c1 == api_post(SonarrTestUrl,
                           Some([hostname |-> service.hostname, apiKey |-> api_key.v]),
                           TRUE, HTTP_OK, a1)
            api_metadata == Metadata
            root_folders == RootFolders(api_metadata.rootFolders)
            quality_profile_ids == ProfileIds(api_metadata.profiles)
            language_profile_ids == ProfileIds(api_metadata.languageProfiles)
            tag_ids == TagLabelIds(api_metadata.tags)
            rendered == Render(service, api_key.v, root_folders, quality_profile_ids,
                               language_profile_ids, tag_ids, TRUE)
            exists == InRemote(snapshot.sonarr.definitions, service_name)
            create_attrs == SonarrCreateAttrs(rendered.v, quality_profile_ids,
                                              language_profile_ids, tag_ids, service_name)
            c2 == api_post(Url(SonarrPath), Some(create_attrs), TRUE, HTTP_CREATED, a2)
            created == IF Applied(c2) THEN RemoteSonarrCreate(remote, create_attrs)
                       ELSE remote
            remote_service ==
                Render(Lookup(snapshot.sonarr.definitions, service_name), api_key.v,
                       root_folders, quality_profile_ids, language_profile_ids, tag_ids,
                       FALSE).v
            diff == SonarrUpdateAttrs(rendered.v, remote_service, quality_profile_ids,
                                      language_profile_ids, tag_ids, TRUE)
            service_id == Lookup(svc.service_ids, service_name)
            update_attrs == Put(diff.attrs, "name", service_name)
            c3 == api_put(UrlId(SonarrPath, service_id), Some(update_attrs), TRUE,
                          HTTP_OK, a2)
            updated == IF Applied(c3)
                       THEN RemoteSonarrUpdate(remote, service_id, update_attrs)
                       ELSE remote
            Continue(newCalls, newRemote, value) ==
                /\ pc' = pc
                /\ calls' = calls \o newCalls
                /\ remote' = newRemote
                /\ svc' = [svc EXCEPT !.i = @ + 1, !.changed = @ \/ value]
                /\ UNCHANGED <<results, err>>
        IN  IF ~api_key.ok
            THEN RaiseEntry(<<>>, remote, KeyError("instance_name"))
            ELSE IF Raises(c1)
            THEN RaiseEntry(<<c1>>, remote, api_error(c1))
            ELSE IF ~rendered.ok
            THEN RaiseEntry(<<c1>>, remote, rendered.error)
            ELSE IF ~exists
            THEN IF Raises(c2)
                 THEN RaiseEntry(<<c1, c2>>, created, api_error(c2))
                 ELSE Continue(<<c1, c2>>, created, TRUE)
            ELSE IF ~HasKey(svc.service_ids, service_name)
            THEN RaiseEntry(<<c1>>, remote, KeyError("service_ids"))
            ELSE IF diff.changed
            THEN IF Raises(c3)
                 THEN RaiseEntry(<<c1, c3>>, updated, api_error(c3))
                 ELSE Continue(<<c1, c3>>, updated, TRUE)
            ELSE Continue(<<c1>>, remote, FALSE)
    /\ UNCHANGED <<dry_run, config, remote0, snapshot, invoked>>
    /\ UNCHANGED <<permVars, mapVars, apiVars>>

\* the remote after the deletes among cs that it carried out
RECURSIVE ApplyDeletes(_, _)
ApplyDeletes(rm, cs) ==
    IF cs = <<>> THEN rm
    ELSE ApplyDeletes(IF Applied(Head(cs)) THEN RemoteSonarrDelete(rm, Head(cs).url.id)
                      ELSE rm,
                      Tail(cs))

\* the names of the remote definitions that the configuration does not define
Unmanaged(local_definitions, remote_definitions) ==
    SelectSeq([i \in 1..Len(remote_definitions) |-> remote_definitions[i][1]],
              LAMBDA service_name : ~HasKey(local_definitions, service_name))

\* a second loop that does not wait for the first one to finish
ServicesUnmanaged_early ==
    /\ pc = "services_definitions"
    /\ LET unmanaged == Unmanaged(config.sonarr.definitions, snapshot.sonarr.definitions)
           todo == DeleteTodo(config.sonarr.delete_unmanaged, unmanaged)
       IN  \E answers \in Answers([i \in 1..Len(todo) |-> HTTP_OK]) :
              LET cs == Prefix([i \in 1..Len(todo) |->
                                  api_delete(UrlId(SonarrPath,
                                                   Lookup(svc.service_ids, todo[i])),
                                             TRUE, HTTP_OK, answers[i])])
                  rm == ApplyDeletes(remote, cs)
              IN  IF cs # <<>> /\ Raises(cs[Len(cs)])
                  THEN Raise("services", cs, rm, api_error(cs[Len(cs)]))
                  ELSE Return("services", cs, rm, svc.changed \/ todo # <<>>)
    /\ UNCHANGED <<dry_run, config, remote0, snapshot, invoked>>
    /\ UNCHANGED <<permVars, mapVars, apiVars>>

\* SonarrSettings.update_remote: `for service_name, service in
\* remote.definitions.items()` and the return
ServicesUnmanaged ==
    /\ pc = "services_definitions"
    /\ svc.i > Len(config.sonarr.definitions)
    /\ LET unmanaged == Unmanaged(config.sonarr.definitions, snapshot.sonarr.definitions)
           todo == DeleteTodo(config.sonarr.delete_unmanaged, unmanaged)
       IN  \E answers \in Answers([i \in 1..Len(todo) |-> HTTP_OK]) :
              LET cs == Prefix([i \in 1..Len(todo) |->
                                  api_delete(UrlId(SonarrPath,
                                                   Lookup(svc.service_ids, todo[i])),
                                             TRUE, HTTP_OK, answers[i])])
                  rm == ApplyDeletes(remote, cs)
              IN  IF cs # <<>> /\ Raises(cs[Len(cs)])
                  THEN Raise("services", cs, rm, api_error(cs[Len(cs)]))
                  ELSE Return("services", cs, rm, svc.changed \/ todo # <<>>)
    /\ UNCHANGED <<dry_run, config, remote0, snapshot, invoked>>
    /\ UNCHANGED <<permVars, mapVars, apiVars>>

\* ---------------------------------------------------------------------
\* The configurations and remote states a pass starts from
\* ---------------------------------------------------------------------

DefaultPermissionBits == 32 + 1048576

RemoteService(id, name, hostname) ==
    [id |-> id, name |-> name, hostname |-> hostname, apiKey |-> "key",
     activeDirectory |-> "/tv", activeProfileId |-> 4,
     activeProfileName |-> "HD-1080p", activeLanguageProfileId |-> 1,
     tags |-> <<>>, activeAnimeDirectory |-> "", animeTags |-> <<>>]

RemoteMain(bits) ==
    [applicationUrl |-> "", hideAvailable |-> FALSE, localLogin |-> TRUE,
     defaultPermissions |-> bits,
     defaultQuotas |-> [movie |-> [quotaDays |-> 7, quotaLimit |-> 0],
                        tv |-> [quotaDays |-> 7, quotaLimit |-> 0]]]

Remotes ==
    { [initialized |-> TRUE,
       main |-> RemoteMain(bits),
       jellyfin |-> [externalHostname |-> host,
                     libraries |-> <<[id |-> "l1", name |-> "Movies", enabled |-> TRUE],
                                     [id |-> "l2", name |-> "Shows", enabled |-> FALSE]>>],
       sonarr |-> services] :
      bits \in {DefaultPermissionBits, 16777216},
      host \in {"", "http://old.example"},
      services \in { <<>>,
                     <<RemoteService(1, "A", "sonarr-a")>>,
                     <<RemoteService(1, "A", "sonarr-a"),
                       RemoteService(2, "C", "sonarr-c")>> } }

Service(hostname, quality_profile) ==
    [instance_name |-> None, hostname |-> hostname, api_key |-> Some("key"),
     root_folder |-> "/tv", quality_profile |-> quality_profile,
     language_profile |-> RefName("English"), tags |-> {},
     anime_root_folder |-> None, anime_quality_profile |-> None,
     anime_language_profile |-> None, anime_tags |-> {}]

Definitions ==
    { <<>>,
      << <<"A", Service("sonarr-a", RefName("HD-1080p"))>> >>,
      << <<"A", Service("sonarr-a", RefId(4))>> >>,
      << <<"A", Service("sonarr-x", RefName("SD"))>>,
         <<"B", [Service("sonarr-b", RefName("HD-1080p")) EXCEPT
                   !.tags = {RefName("hd"), RefId(1)},
                   !.anime_quality_profile = Some(RefName("SD"))]>> >>,
      << <<"B", Service("sonarr-b", RefName("Nonexistent"))>>,
         <<"A", Service("sonarr-x", RefName("HD-1080p"))>> >>,
      << <<"B", [Service("sonarr-b", RefName("HD-1080p")) EXCEPT
                   !.instance_name = Some("ghost"), !.api_key = None]>>,
         <<"A", Service("sonarr-x", RefName("HD-1080p"))>> >>,
      << <<"A", [Service("sonarr-a", RefName("HD-1080p")) EXCEPT
                   !.language_profile = RefId(9)]>> >>,
      << <<"B", [Service("sonarr-b", RefName("HD-1080p")) EXCEPT
                   !.anime_root_folder = Some("/missing")]>> >>,
      << <<"B", [Service("sonarr-b", RefName("HD-1080p")) EXCEPT
                   !.instance_name = Some("sonarr1"), !.api_key = None,
                   !.anime_quality_profile = Some(RefId(0))]>> >> }

\* the jellyfin section of a configuration whose bootstrap attributes are set
Jellyfin(external_url, libraries) ==
    [server_url |-> Some(<<"j", "f">>), username |-> Some(<<"u">>),
     password |-> Some(<<"p">>), email_address |-> Some(<<"e">>),
     external_url |-> external_url, libraries |-> libraries]

UsersDefault ==
    [enable_local_signin |-> TRUE, global_movie_request_limit |-> 0,
     global_series_request_limit |-> 0,
     default_permissions |-> {"request", "manage_issues"}]

Configs ==
    { [general |-> [application_url |-> url, hide_available_media |-> FALSE],
       users |-> u, jellyfin |-> j,
       sonarr |-> [delete_unmanaged |-> del, definitions |-> defs]] :
      url \in {None, Some("http://app.example")},
      u \in { UsersDefault,
              [UsersDefault EXCEPT !.global_movie_request_limit = 5,
                                   !.default_permissions = {"request"}] },
      j \in { Jellyfin(None, {"Movies"}),
              Jellyfin(Some("http://jf.example"), {"Movies"}),
              Jellyfin(None, {"Movies", "Shows"}),
              Jellyfin(None, {"Movies", "Ghost"}) },
      del \in BOOLEAN,
      defs \in Definitions }

NoSvc == [service_ids |-> <<>>, i |-> 0, changed |-> FALSE]

NoSnapshot ==
    [general |-> [application_url |-> None, hide_available_media |-> FALSE],
     jellyfin |-> [external_url |-> None, libraries |-> {}],
     users |-> [enable_local_signin |-> FALSE, global_movie_request_limit |-> 0,
                global_series_request_limit |-> 0, default_permissions |-> {}],
     sonarr |-> [definitions |-> <<>>]]

SyncInit ==
    /\ dry_run \in BOOLEAN
    /\ config \in Configs
    /\ remote \in Remotes
    /\ remote0 = remote
    /\ snapshot = NoSnapshot
    /\ pc = "from_remote"
    /\ invoked = <<>>
    /\ results = <<>>
    /\ calls = <<>>
    /\ err = NoError
    /\ svc = NoSvc

\* the configurations the bootstrap is run with: each bootstrap attribute
\* unset, empty, blank or set
BootConfigs ==
    { [general |-> [application_url |-> None, hide_available_media |-> FALSE],
       users |-> UsersDefault,
       jellyfin |-> [server_url |-> server_url, username |-> username,
                     password |-> password, email_address |-> email_address,
                     external_url |-> None, libraries |-> libraries],
       sonarr |-> [delete_unmanaged |-> TRUE,
                   definitions |-> << <<"A", Service("sonarr-a", RefName("SD"))>> >>]] :
      server_url \in {None, Some(<<>>), Some(<<" ">>), Some(<<"j", "f">>)},
      username \in {None, Some(<<" ", " ">>), Some(<<"u">>)},
      password \in {None, Some(<<>>), Some(<<"p">>)},
      email_address \in {None, Some(<<"e">>)},
      libraries \in {{}, {"Movies"}, {"Movies", "Ghost"}} }

\* an instance that was never set up, and one that was
BootRemotes ==
    { [initialized |-> FALSE, main |-> RemoteMain(DefaultPermissionBits),
       jellyfin |-> [externalHostname |-> "", libraries |-> <<>>],
       sonarr |-> <<>>],
      [initialized |-> TRUE, main |-> RemoteMain(DefaultPermissionBits),
       jellyfin |-> [externalHostname |-> "",
                     libraries |-> <<[id |-> "l1", name |-> "Movies", enabled |-> TRUE],
                                     [id |-> "l2", name |-> "Shows", enabled |-> FALSE]>>],
       sonarr |-> <<RemoteService(1, "A", "sonarr-a"), RemoteService(2, "C", "sonarr-c")>>] }

BootInit ==
    /\ dry_run \in BOOLEAN
    /\ config \in BootConfigs
    /\ remote \in BootRemotes
    /\ remote0 = remote
    /\ snapshot = NoSnapshot
    /\ pc = "is_initialized"
    /\ invoked = <<>>
    /\ results = <<>>
    /\ calls = <<>>
    /\ err = NoError
    /\ svc = NoSvc

\* the codec variables while a pass runs
PermIdle ==
    /\ encoded = 0
    /\ declared = {}
    /\ decoded = Pending
    /\ reduced = Pending
    /\ canon = Pending
    /\ canon2 = Pending

\* the pass variables, dry_run apart, while no pass runs
PassIdle ==
    /\ config = CHOOSE c \in Configs : TRUE
    /\ remote = CHOOSE r \in Remotes : TRUE
    /\ remote0 = remote
    /\ snapshot = NoSnapshot
    /\ pc = "idle"
    /\ invoked = <<>>
    /\ results = <<>>
    /\ calls = <<>>
    /\ err = NoError
    /\ svc = NoSvc

\* the pass variables while the codec is exercised
SyncIdle == dry_run = FALSE /\ PassIdle

\* ---------------------------------------------------------------------
\* api.py: one call on its own, for every response the remote can give
\* ---------------------------------------------------------------------

Methods == {"GET", "POST", "PUT", "DELETE"}

\* the bodies a response can carry
Bodies ==
    { JObject(Some("boom"), None), JObject(None, Some("bad")),
      JObject(Some("boom"), Some("bad")), JObject(None, None),
      JList(<<>>),
      JList(<<JObject(Some("boom"), None), JObject(None, Some("bad"))>>),
      JList(<<JObject(None, None)>>),
      JList(<<JString(<<"x">>)>>), JList(<<JNumber>>),
      JString(<<>>), JString(<<"o", "o", "p", "s">>), JNumber, JNull }

ApiInputs ==
    { [method |-> m, req |-> r, expected |-> e, reply |-> Reply(s, b)] :
        m \in Methods, r \in {None, Some([name |-> "A"])},
        e \in {HTTP_OK, HTTP_CREATED}, s \in Statuses \cup {HTTP_ACCEPTED}, b \in Bodies }

NoCall == api_get(Url(""), TRUE, 0, Reply(0, JNull))

ApiInit ==
    /\ apiIn \in { in \in ApiInputs :
                     \/ in.method \in {"POST", "PUT"} /\ (in.method = "PUT" => in.req # None)
                     \/ in.req = None }
    /\ apiCall = NoCall
    /\ apiOut = "pending"

ApiIdle ==
    /\ apiIn = [method |-> "", req |-> None, expected |-> 0, reply |-> Reply(0, JNull)]
    /\ apiCall = NoCall
    /\ apiOut = "idle"

ApiUrl == Url("/api/v1/settings/main")

\* api_get / api_post / api_put / api_delete up to the response
Request ==
    /\ apiOut = "pending"
    /\ apiCall' =
          (CASE apiIn.method = "GET" -> api_get(ApiUrl, TRUE, apiIn.expected, apiIn.reply)
             [] apiIn.method = "POST" ->
                   api_post(ApiUrl, apiIn.req, TRUE, apiIn.expected, apiIn.reply)
             [] apiIn.method = "PUT" ->
                   api_put(ApiUrl, apiIn.req, TRUE, apiIn.expected, apiIn.reply)
             [] apiIn.method = "DELETE" ->
                   api_delete(ApiUrl, TRUE, apiIn.expected, apiIn.reply))
    /\ apiOut' = "response"
    /\ UNCHANGED apiIn
    /\ UNCHANGED <<syncVars, permVars, mapVars>>

\* the status check: the call returns res_json, or api_error raises
CheckStatus ==
    /\ apiOut = "response"
    /\ apiOut' = (IF Raises(apiCall) THEN api_error(apiCall).kind ELSE "returned")
    /\ UNCHANGED <<apiIn, apiCall>>
    /\ UNCHANGED <<syncVars, permVars, mapVars>>

ApiNext == Request \/ CheckStatus

\* ---------------------------------------------------------------------
\* The encoders and decoders of the remote maps, applied to one value
\* ---------------------------------------------------------------------

\* general.py: the discover_languages ("locale") encoder and decoder
discover_languages_encoder(v) == IF v # {} THEN JoinComma(SortedStrs(v)) ELSE <<>>

discover_languages_decoder(v) ==
    IF v # <<>>
    THEN LET parts == SplitComma(v) IN { Strip(parts[i]) : i \in 1..Len(parts) }
    ELSE {}

\* the metadata the Sonarr encoders close over
LanguageProfileIds == << <<"English", 1>> >>
TagIds == << <<"anime", 1>>, <<"hd", 2>> >>
QualityProfileIds == << <<"HD-1080p", 4>>, <<"SD", 1>> >>
LibraryList ==
    <<[id |-> "l1", name |-> "Movies", enabled |-> TRUE],
      [id |-> "l2", name |-> "Shows", enabled |-> FALSE]>>

\* base.py: the enable_automatic_search ("preventSearch") encoder, decoder
operator_not(v) == ~v

\* the encoder (or root_encoder) of an entry on local value v
Encoder(entry, v) ==
    CASE entry = "general.application_title" -> Val("str", v)
      [] entry = "general.application_url" -> Val("str", or_empty(v))
      [] entry = "general.discover_languages" -> Val("chars", discover_languages_encoder(v))
      [] entry = "users.enable_local_signin" -> Val("bool", v)
      [] entry = "users.global_movie_request_limit" ->
            Val("quotas", default_quotas_encoder(
                    [global_movie_request_limit |-> v, global_series_request_limit |-> 0],
                    7, 7))
      [] entry = "users.global_series_request_limit" ->
            Val("quotas", default_quotas_encoder(
                    [global_movie_request_limit |-> 0, global_series_request_limit |-> v],
                    7, 7))
      [] entry = "users.default_permissions" -> Val("int", set_encoder(v))
      [] entry = "jellyfin.external_url" -> Val("str", external_url_encoder(v))
      [] entry = "jellyfin.libraries" -> Val("idset", libraries_encoder(LibraryList, v))
      [] entry = "sonarr.url_base" -> Val("str", or_empty(v))
      [] entry = "sonarr.enable_automatic_search" -> Val("bool", operator_not(v))
      [] entry = "sonarr.quality_profile" ->
            quality_profile_encoder(QualityProfileIds, v)
      [] entry = "sonarr.language_profile" ->
            language_profile_encoder(LanguageProfileIds, v)
      [] entry = "sonarr.tags" -> tags_encoder(TagIds, v)

\* the decoder of an entry on the remote value w.v
Decoder(entry, w) ==
    CASE entry = "general.application_title" -> w
      [] entry = "general.application_url" -> Val("optstr", or_none(w.v))
      [] entry = "general.discover_languages" ->
            Val("strset", discover_languages_decoder(w.v))
      [] entry = "users.enable_local_signin" -> w
      [] entry = "users.global_movie_request_limit" -> Val("int", w.v.movie.quotaLimit)
      [] entry = "users.global_series_request_limit" -> Val("int", w.v.tv.quotaLimit)
      [] entry = "users.default_permissions" ->
            LET r == set_decoder(w.v)
            IN  IF r.ok THEN Val("permset", r.perms) ELSE Raised("ValueError")
      [] entry = "jellyfin.external_url" -> Val("optstr", or_none(w.v))
      [] entry = "jellyfin.libraries" ->
            \* li["enabled"] on the str elements of the encoder's id set
            IF w.v = {} THEN Val("strset", {}) ELSE Raised("TypeError")
      [] entry = "sonarr.url_base" -> Val("optstr", or_none(w.v))
      [] entry = "sonarr.enable_automatic_search" -> Val("bool", operator_not(w.v))
      [] entry = "sonarr.quality_profile" -> w
      [] entry = "sonarr.language_profile" -> w
      [] entry = "sonarr.tags" -> w

\* the sets the default_permissions validator can yield
ReducedSets ==
    { set_reduce(S).perms : S \in { T \in SubsetsUpTo(Permission, MaxFlags - 1) :
                                      set_reduce(T).ok } }

Languages == { <<"e", "n">>, <<"f", "r">>, <<"e">>, <<>> }

\* the valid local values of the entries without set_if
MapInputs ==
    ({"general.application_title"} \X { Val("str", s) : s \in {"Jellyseerr", "Requests"} })
    \cup ({"general.application_url", "jellyfin.external_url"}
            \X { Val("optstr", u) : u \in {None, Some("http://example.com")} })
    \cup ({"general.discover_languages"}
            \X { Val("strset", S) : S \in SubsetsUpTo(Languages, 2) })
    \cup ({"users.enable_local_signin", "sonarr.enable_automatic_search"}
            \X { Val("bool", b) : b \in BOOLEAN })
    \cup ({"users.global_movie_request_limit", "users.global_series_request_limit"}
            \X { Val("int", n) : n \in {0, 5} })
    \cup ({"users.default_permissions"} \X { Val("permset", S) : S \in ReducedSets })
    \cup ({"jellyfin.libraries"}
            \X { Val("strset", S) : S \in {{}, {"Movies"}, {"Movies", "Shows"}} })
    \cup ({"sonarr.url_base"}
            \X { Val("optstr", u) : u \in {None, Some(""), Some("/sonarr")} })
    \cup ({"sonarr.quality_profile", "sonarr.language_profile"}
            \X { Val("ref", r) : r \in {RefName("HD-1080p"), RefName("English"), RefId(4)} })
    \cup ({"sonarr.tags"}
            \X { Val("refset", S) : S \in {{}, {RefName("hd")}, {RefName("hd"), RefName("anime")}} })

NoVal == Raised("pending")

MapInit ==
    /\ \E in \in MapInputs : mapEntry = in[1] /\ mapLocal = in[2]
    /\ mapWire = NoVal
    /\ mapBack = NoVal
    /\ mapPc = "local"

MapIdle ==
    /\ mapEntry = ""
    /\ mapLocal = NoVal
    /\ mapWire = NoVal
    /\ mapBack = NoVal
    /\ mapPc = "idle"

\* get_update_remote_attrs / get_create_remote_attrs: the value is encoded
Encode ==
    /\ mapPc = "local"
    /\ mapWire' = Encoder(mapEntry, mapLocal.v)
    /\ mapPc' = "wire"
    /\ UNCHANGED <<mapEntry, mapLocal, mapBack>>
    /\ UNCHANGED <<syncVars, permVars, apiVars>>

\* get_local_attrs: the remote value is decoded
Decode ==
    /\ mapPc = "wire"
    /\ mapBack' = (IF mapWire.ok THEN Decoder(mapEntry, mapWire) ELSE mapWire)
    /\ mapPc' = "back"
    /\ UNCHANGED <<mapEntry, mapLocal, mapWire>>
    /\ UNCHANGED <<syncVars, permVars, apiVars>>

MapNext == Encode \/ Decode

Init == SyncInit /\ PermIdle /\ MapIdle /\ ApiIdle

Next ==
    \/ FromRemote
    \/ UpdateJellyfin
    \/ UpdateGeneral
    \/ UpdateUsers
    \/ ServicesBegin
    \/ ServicesDefinition
    \/ ServicesUnmanaged

Spec == Init /\ [][Next]_vars

InitPerm == PermInit /\ SyncIdle /\ MapIdle /\ ApiIdle

SpecPerm == InitPerm /\ [][PermNext]_vars

InitMap == MapInit /\ SyncIdle /\ PermIdle /\ ApiIdle

SpecMap == InitMap /\ [][MapNext]_vars

\* one API call
InitApi == ApiInit /\ dry_run \in BOOLEAN /\ PassIdle /\ PermIdle /\ MapIdle

SpecApi == InitApi /\ [][ApiNext]_vars

\* the bootstrap of an instance followed by the pass
InitBoot == BootInit /\ PermIdle /\ MapIdle /\ ApiIdle

NextBoot ==
    \/ IsInitialized
    \/ Initialize
    \/ FromRemote
    \/ UpdateJellyfin
    \/ UpdateGeneral
    \/ UpdateUsers
    \/ ServicesBegin
    \/ ServicesDefinition
    \/ ServicesUnmanaged

SpecBoot == InitBoot /\ [][NextBoot]_vars

\* a pass over one existing Sonarr definition whose remote record refers to
\* its profiles and tags by name or by id, known to the probe or not
RenderRemotes ==
    { [initialized |-> TRUE,
       main |-> RemoteMain(DefaultPermissionBits),
       jellyfin |-> [externalHostname |-> "",
                     libraries |-> <<[id |-> "l1", name |-> "Movies", enabled |-> TRUE],
                                     [id |-> "l2", name |-> "Shows", enabled |-> FALSE]>>],
       sonarr |-> <<service>>] :
      service \in
        { RemoteService(1, "A", "sonarr-a"),
          [RemoteService(1, "A", "sonarr-a") EXCEPT !.activeLanguageProfileId = 9],
          [RemoteService(1, "A", "sonarr-a") EXCEPT !.activeProfileId = 7,
                                                    !.activeProfileName = "Gone"],
          [RemoteService(1, "A", "sonarr-a") EXCEPT !.tags = <<2>>],
          [RemoteService(1, "A", "sonarr-a") EXCEPT !.tags = <<7>>],
          [RemoteService(1, "A", "sonarr-a") EXCEPT !.activeDirectory = "/gone"] } }

RenderConfigs ==
    { [general |-> [application_url |-> None, hide_available_media |-> FALSE],
       users |-> UsersDefault,
       jellyfin |-> Jellyfin(None, {"Movies"}),
       sonarr |-> [delete_unmanaged |-> FALSE,
                   definitions |->
                      << <<"A", [Service("sonarr-a", quality_profile) EXCEPT
                                   !.language_profile = language_profile,
                                   !.tags = tags]>> >>]] :
      quality_profile \in {RefName("HD-1080p"), RefId(4)},
      language_profile \in {RefName("English"), RefId(1)},
      tags \in {{}, {RefName("hd")}, {RefId(2)}} }

InitRender ==
    /\ dry_run \in BOOLEAN
    /\ config \in RenderConfigs
    /\ remote \in RenderRemotes
    /\ remote0 = remote
    /\ snapshot = NoSnapshot
    /\ pc = "from_remote"
    /\ invoked = <<>>
    /\ results = <<>>
    /\ calls = <<>>
    /\ err = NoError
    /\ svc = NoSvc
    /\ PermIdle /\ MapIdle /\ ApiIdle

SpecRender == InitRender /\ [][Next]_vars

\* a pass over a remote whose Sonarr collection holds one name twice
DupRemotes ==
    { [initialized |-> TRUE,
       main |-> RemoteMain(DefaultPermissionBits),
       jellyfin |-> [externalHostname |-> "",
                     libraries |-> <<[id |-> "l1", name |-> "Movies", enabled |-> TRUE],
                                     [id |-> "l2", name |-> "Shows", enabled |-> FALSE]>>],
       sonarr |-> services] :
      services \in
        { <<RemoteService(1, "A", "sonarr-a"), RemoteService(2, "A", "sonarr-b")>>,
          <<RemoteService(1, "A", "sonarr-a"), RemoteService(2, "C", "sonarr-c"),
            RemoteService(3, "A", "sonarr-b")>>,
          <<RemoteService(1, "A", "sonarr-a"), RemoteService(2, "C", "sonarr-c")>> } }

DupConfigs ==
    { [general |-> [application_url |-> None, hide_available_media |-> FALSE],
       users |-> UsersDefault,
       jellyfin |-> Jellyfin(None, {"Movies"}),
       sonarr |-> [delete_unmanaged |-> del, definitions |-> defs]] :
      del \in BOOLEAN,
      defs \in { <<>>,
                 << <<"A", Service("sonarr-a", RefName("HD-1080p"))>> >>,
                 << <<"A", Service("sonarr-b", RefName("HD-1080p"))>> >>,
                 << <<"C", Service("sonarr-c", RefName("HD-1080p"))>> >> } }

InitDup ==
    /\ dry_run \in BOOLEAN
    /\ config \in DupConfigs
    /\ remote \in DupRemotes
    /\ remote0 = remote
    /\ snapshot = NoSnapshot
    /\ pc = "from_remote"
    /\ invoked = <<>>
    /\ results = <<>>
    /\ calls = <<>>
    /\ err = NoError
    /\ svc = NoSvc
    /\ PermIdle /\ MapIdle /\ ApiIdle

SpecDup == InitDup /\ [][Next]_vars

\* a pass against a remote whose request quotas have periods and limits of
\* their own
QuotaRemotes ==
    { [initialized |-> TRUE,
       main |-> [RemoteMain(DefaultPermissionBits) EXCEPT
                   !.defaultQuotas = [movie |-> [quotaDays |-> md, quotaLimit |-> ml],
                                      tv |-> [quotaDays |-> td, quotaLimit |-> tl]]],
       jellyfin |-> [externalHostname |-> "",
                     libraries |-> <<[id |-> "l1", name |-> "Movies", enabled |-> TRUE],
                                     [id |-> "l2", name |-> "Shows", enabled |-> FALSE]>>],
       sonarr |-> <<RemoteService(1, "A", "sonarr-a"), RemoteService(2, "C", "sonarr-c")>>] :
      md \in {7, 30}, td \in {0, 14}, ml \in {0, 5}, tl \in {0, 3} }

QuotaConfigs ==
    { [general |-> [application_url |-> None, hide_available_media |-> FALSE],
       users |-> [UsersDefault EXCEPT !.global_movie_request_limit = movie,
                                      !.global_series_request_limit = series],
       jellyfin |-> Jellyfin(None, {"Movies"}),
       sonarr |-> [delete_unmanaged |-> TRUE,
                   definitions |->
                      << <<"A", Service("sonarr-a", RefName("HD-1080p"))>> >>]] :
      movie \in {0, 5}, series \in {0, 3} }

InitQuota ==
    /\ dry_run \in BOOLEAN
    /\ config \in QuotaConfigs
    /\ remote \in QuotaRemotes
    /\ remote0 = remote
    /\ snapshot = NoSnapshot
    /\ pc = "from_remote"
    /\ invoked = <<>>
    /\ results = <<>>
    /\ calls = <<>>
    /\ err = NoError
    /\ svc = NoSvc
    /\ PermIdle /\ MapIdle /\ ApiIdle

SpecQuota == InitQuota /\ [][Next]_vars

\* the host runs the plugin again with the same configuration: a pass that
\* completed without a dry run is followed by a second one, which fetches
\* the remote anew; `results` keeps the first pass's four return values
Restart ==
    /\ pc = "done"
    /\ ~dry_run
    /\ Len(results) = 4
    /\ pc' = "from_remote"
    /\ remote0' = remote
    /\ snapshot' = NoSnapshot
    /\ calls' = <<>>
    /\ invoked' = <<>>
    /\ svc' = NoSvc
    /\ UNCHANGED <<dry_run, config, remote, results, err>>
    /\ UNCHANGED <<permVars, mapVars, apiVars>>

TwiceConfigs ==
    { [general |-> [application_url |-> url, hide_available_media |-> FALSE],
       users |-> u, jellyfin |-> j,
       sonarr |-> [delete_unmanaged |-> del, definitions |-> defs]] :
      url \in {None, Some("http://app.example")},
      u \in { UsersDefault,
              [UsersDefault EXCEPT !.global_movie_request_limit = 5,
                                   !.default_permissions = {"request"}] },
      j \in { Jellyfin(None, {"Movies"}),
              Jellyfin(Some("http://jf.example"), {"Movies", "Shows"}),
              Jellyfin(None, {"Movies", "Ghost"}) },
      del \in BOOLEAN,
      defs \in { <<>>,
                 << <<"A", Service("sonarr-a", RefId(4))>> >>,
                 << <<"A", Service("sonarr-x", RefName("SD"))>>,
                    <<"B", [Service("sonarr-b", RefName("HD-1080p")) EXCEPT
                              !.tags = {RefName("hd"), RefId(1)},
                              !.anime_quality_profile = Some(RefName("SD"))]>> >> } }

InitTwice ==
    /\ dry_run = FALSE
    /\ config \in TwiceConfigs
    /\ remote \in Remotes
    /\ remote0 = remote
    /\ snapshot = NoSnapshot
    /\ pc = "from_remote"
    /\ invoked = <<>>
    /\ results = <<>>
    /\ calls = <<>>
    /\ err = NoError
    /\ svc = NoSvc
    /\ PermIdle /\ MapIdle /\ ApiIdle

NextTwice ==
    \/ FromRemote
    \/ UpdateJellyfin
    \/ UpdateGeneral
    \/ UpdateUsers
    \/ ServicesBegin
    \/ ServicesDefinition
    \/ ServicesUnmanaged
    \/ Restart

SpecTwice == InitTwice /\ [][NextTwice]_vars

\* ---------------------------------------------------------------------
\* Properties of the permission codec
\* ---------------------------------------------------------------------

\* the dependent flags and the prerequisites the specification gives them
DependentFlags ==
    { "auto_request", "auto_request_movie", "auto_request_tv",
      "auto_approve", "auto_approve_movie", "auto_approve_tv",
      "auto_approve_4k", "auto_approve_4k_movie", "auto_approve_4k_tv" }

Prereq ==
    [ auto_request |-> {"request"},
      auto_request_movie |-> {"request", "request_movie"},
      auto_request_tv |-> {"request", "request_tv"},
      auto_approve |-> {"request"},
      auto_approve_movie |-> {"request", "request_movie"},
      auto_approve_tv |-> {"request", "request_tv"},
      auto_approve_4k |-> {"request_4k"},
      auto_approve_4k_movie |-> {"request_4k", "request_4k_movie"},
      auto_approve_4k_tv |-> {"request_4k", "request_4k_tv"} ]

\* the families: coarse flag |-> its fine-grained siblings
FamilyFine ==
    [ manage_issues |-> {"view_issues", "create_issues"},
      manage_requests |-> {"request_advanced", "request_view", "recent_view",
                           "watchlist_view"},
      request |-> {"request_movie", "request_tv"},
      request_4k |-> {"request_4k_movie", "request_4k_tv"},
      auto_request |-> {"auto_request_movie", "auto_request_tv"},
      auto_approve |-> {"auto_approve_movie", "auto_approve_tv"},
      auto_approve_4k |-> {"auto_approve_4k_movie", "auto_approve_4k_tv"} ]

Coarse == DOMAIN FamilyFine

\* the bit of p is set in bitmask b (p a single-bit flag)
BitSet(b, p) == (b \div PermValue[p]) % 2 = 1

\* a dependent flag the decoder tests: its bit is set and, for a movie/tv
\* flag, the coarse flag of its own family is clear
Tested(b, d) ==
    /\ BitSet(b, d)
    /\ \A c \in Coarse : d \in FamilyFine[c] => ~BitSet(b, c)

\* the set decoded before the first dependent block: the decoder's result on
\* the bitmask with every dependent bit cleared
BaseBits(b) == b - Sum({ PermValue[d] : d \in { x \in DependentFlags : BitSet(b, x) } })

DecodedSoFar(b) == IF BaseBits(b) = 0 THEN {} ELSE set_decoder(BaseBits(b)).perms

Violations(b) ==
    { d \in DependentFlags : Tested(b, d) /\ ~(Prereq[d] \subseteq DecodedSoFar(b)) }

\* C4: on a non-admin, non-zero bitmask the decoder raises "permission X
\* requires unset permission Y" if and only if a tested dependent bit is set
\* while one of its prerequisites is missing from the set decoded so far; the
\* error names such a dependent X and one of X's prerequisites; on success
\* the result is the set decoded so far plus every tested dependent flag
\* (nothing is added or dropped to repair a violation).
C4_PrerequisitesEnforced ==
    (decoded # Pending /\ encoded # 0 /\ ~BitSet(encoded, "admin")) =>
        /\ ~decoded.ok <=> Violations(encoded) # {}
        /\ ~decoded.ok =>
              /\ decoded.err[1] \in Violations(encoded)
              /\ decoded.err[2] \in Prereq[decoded.err[1]]
        /\ decoded.ok =>
              decoded.perms =
                  DecodedSoFar(encoded) \cup { d \in DependentFlags : Tested(encoded, d) }

C4_Witness ==
    /\ decoded.err = <<"auto_approve_4k_tv", "request_4k_tv">>
    /\ BitSet(encoded, "request_4k")

\* C5 as stated: every bitmask with the auto_request_movie bit set and the
\* request_movie bit clear makes the decoder raise an error naming both.
C5_Original ==
    (decoded # Pending /\ BitSet(encoded, "auto_request_movie")
        /\ ~BitSet(encoded, "request_movie")) =>
        decoded.err = <<"auto_request_movie", "request_movie">>

\* C5 amended: every bitmask with the admin and auto_request bits clear, the
\* auto_request_movie bit set and the request_movie bit clear makes the
\* decoder raise an error naming auto_request_movie and request_movie.
C5_Amended ==
    (decoded # Pending /\ BitSet(encoded, "auto_request_movie")
        /\ ~BitSet(encoded, "request_movie")
        /\ ~BitSet(encoded, "admin") /\ ~BitSet(encoded, "auto_request")) =>
        decoded.err = <<"auto_request_movie", "request_movie">>

C5_Witness ==
    /\ decoded.err = <<"auto_request_movie", "request_movie">>
    /\ ~BitSet(encoded, "request_movie")
    /\ BitSet(encoded, "request")

\* C6: a bitmask with the admin bit set decodes to exactly {admin} without
\* error whatever else is set, and set_reduce of any set containing admin is
\* {admin}.
C6_AdminAbsorbing ==
    /\ (decoded # Pending /\ BitSet(encoded, "admin")) => decoded = Ok({"admin"})
    /\ (reduced # Pending /\ "admin" \in declared) => reduced = Ok({"admin"})

C6_Witness ==
    /\ decoded = Ok({"admin"})
    /\ BitSet(encoded, "auto_request_movie")
    /\ ~BitSet(encoded, "request")

\* what C7 says of one family in a successful result
FamilyExclusive(b, perms, c) ==
    IF BitSet(b, c)
    THEN c \in perms /\ perms \cap FamilyFine[c] = {}
    ELSE c \notin perms
         /\ perms \cap FamilyFine[c] = { f \in FamilyFine[c] : BitSet(b, f) }

\* C7 as stated: in every successful decoder result each family holds its
\* coarse flag alone when the coarse bit is set, else exactly the fine flags
\* whose bits are set.
C7_Original ==
    (decoded # Pending /\ decoded.ok) =>
        \A c \in Coarse : FamilyExclusive(encoded, decoded.perms, c)

\* C7 amended: the same for every bitmask whose admin bit is clear; and for
\* every bitmask the result never holds a coarse flag together with one of
\* its own fine-grained flags.
C7_Amended ==
    (decoded # Pending /\ decoded.ok) =>
        /\ ~BitSet(encoded, "admin") =>
              \A c \in Coarse : FamilyExclusive(encoded, decoded.perms, c)
        /\ \A c \in Coarse : c \in decoded.perms => decoded.perms \cap FamilyFine[c] = {}

C7_Witness ==
    /\ decoded.ok
    /\ BitSet(encoded, "manage_requests")
    /\ BitSet(encoded, "request_view")
    /\ BitSet(encoded, "create_issues")
    /\ decoded.perms = {"manage_requests", "create_issues"}

\* C8: for every set S the decoder returns, set_reduce(set_reduce(S))
\* succeeds and equals set_reduce(S).
C8_ReduceIdempotent ==
    (canon # Pending) =>
        /\ canon.ok
        /\ canon2 # Pending => canon2 = canon

C8_Witness ==
    /\ canon2 # Pending
    /\ canon2.ok
    /\ {"request", "auto_approve"} \subseteq canon2.perms

\* C9 as stated: every declared member missing from set_reduce(S) is a
\* fine-grained flag whose coarse flag is in S (or S contains admin), and the
\* result is never empty.
C9_OnlyRedundantDropped ==
    (reduced # Pending /\ reduced.ok) =>
        /\ \A p \in declared \ (reduced.perms \cup {"none"}) :
              \/ "admin" \in declared
              \/ \E c \in Coarse : p \in FamilyFine[c] /\ c \in declared
        /\ reduced.perms # {}

\* ---------------------------------------------------------------------
\* Properties of the dry-run mode and of the pass
\* ---------------------------------------------------------------------

Mutating == {"POST", "PUT", "DELETE"}

\* C1 as stated: with dry-run enabled every api_post, api_put and api_delete
\* call returns normally as a synthesized success without a request being
\* sent, so no pass ends in an error raised by such a call.
C1_DryRunCallsSucceed ==
    dry_run =>
        /\ \A i \in 1..Len(calls) :
              calls[i].method \in Mutating => ~calls[i].sent /\ ~Raises(calls[i])
        /\ err.kind = "JellyseerrAPIError" => err.method \notin Mutating

\* C2 as stated: in dry-run mode only read-only GETs reach the remote and the
\* state of the remote stays what it was when the pass started.
C2_DryRunLeavesRemote ==
    dry_run =>
        /\ \A i \in 1..Len(calls) :
              calls[i].sent => calls[i].method = "GET" /\ calls[i].url.query = ""
        /\ remote = remote0

\* the position of a section in the order of JellyseerrSettings.update_remote
SectionIndex(section) == CHOOSE i \in 1..Len(SectionOrder) : SectionOrder[i] = section

Sections == { SectionOrder[i] : i \in 1..Len(SectionOrder) }

\* C3 as stated: when a remote call fails inside one section's update_remote,
\* every later section still has its update_remote invoked in that pass.
C3_LaterSectionsStillRun ==
    (pc \in {"done", "error"} /\ err.kind = "JellyseerrAPIError" /\ err.where \in Sections) =>
        invoked = SectionOrder

\* C3 amended: when a remote call fails inside one section's update_remote the
\* remainder of that section is aborted (the failed call is the last call
\* made) and the error leaves JellyseerrSettings.update_remote: the pass ends
\* there and no later section has its update_remote invoked.
C3_ErrorEndsPass ==
    (err.kind = "JellyseerrAPIError" /\ err.where \in Sections) =>
        /\ pc = "error"
        /\ invoked = SubSeq(SectionOrder, 1, SectionIndex(err.where))
        /\ Len(results) = SectionIndex(err.where) - 1
        /\ calls # <<>>
        /\ Raises(calls[Len(calls)])
        /\ err = At(api_error(calls[Len(calls)]), err.where)

C3_Witness ==
    /\ pc = "error"
    /\ err.kind = "JellyseerrAPIError"
    /\ err.where = "general"
    /\ invoked = <<"jellyfin", "general">>
    /\ results = <<TRUE>>

\* ---------------------------------------------------------------------
\* Properties of the remote maps
\* ---------------------------------------------------------------------

\* C10 as stated: for every remote-map entry without set_if and every valid
\* local value v of its field, decoder(encoder(v)) = v.
C10_MapRoundTrip ==
    mapPc = "back" =>
        /\ mapBack.ok
        /\ mapBack.type = mapLocal.type
        /\ mapBack.v = mapLocal.v

\* ---------------------------------------------------------------------
\* Properties of the sections' diffs and of the Sonarr collection
\* ---------------------------------------------------------------------

\* the calls the step under consideration makes
NewCalls == SubSeq(calls', Len(calls) + 1, Len(calls'))

\* a request that changes the remote: a create, update or delete (the Sonarr
\* connection test is a POST that changes nothing), or the library enable GET
StateChanging(call) ==
    \/ call.method \in Mutating /\ call.url # SonarrTestUrl
    \/ call.url.query = "enable"

\* the step sends no state-changing request and leaves the remote as it was
Quiet ==
    /\ \A i \in 1..Len(NewCalls) : ~StateChanging(NewCalls[i])
    /\ remote' = remote

\* the section returns False, unless one of its read-only calls failed
ReturnsFalse == pc' # "error" => results' = Append(results, FALSE)

\* the i-th desired Sonarr definition, and what the loop derives for it
DesiredName(i) == config.sonarr.definitions[i][1]

DesiredService(i) == config.sonarr.definitions[i][2]

RenderedDesired(i) ==
    Render(DesiredService(i), get_api_key(DesiredService(i)).v,
           RootFolders(Metadata.rootFolders), ProfileIds(Metadata.profiles),
           ProfileIds(Metadata.languageProfiles), TagLabelIds(Metadata.tags), TRUE)

RenderedRemote(i) ==
    Render(Lookup(snapshot.sonarr.definitions, DesiredName(i)),
           get_api_key(DesiredService(i)).v,
           RootFolders(Metadata.rootFolders), ProfileIds(Metadata.profiles),
           ProfileIds(Metadata.languageProfiles), TagLabelIds(Metadata.tags), FALSE)

EntryDiff(i) ==
    SonarrUpdateAttrs(RenderedDesired(i).v, RenderedRemote(i).v,
                      ProfileIds(Metadata.profiles),
                      ProfileIds(Metadata.languageProfiles),
                      TagLabelIds(Metadata.tags), TRUE)

\* the fields of a Sonarr definition that its remote map covers
SonarrFields ==
    {"hostname", "api_key", "root_folder", "quality_profile", "language_profile",
     "tags", "anime_root_folder", "anime_quality_profile", "anime_language_profile",
     "anime_tags"}

\* the i-th desired definition exists on the remote and, once both are
\* rendered, is field-for-field equal to it
EntryEqual(i) ==
    /\ get_api_key(DesiredService(i)).ok
    /\ RenderedDesired(i).ok
    /\ HasKey(snapshot.sonarr.definitions, DesiredName(i))
    /\ HasKey(svc.service_ids, DesiredName(i))
    /\ \A f \in SonarrFields : RenderedDesired(i).v[f] = RenderedRemote(i).v[f]

JellyfinEqual ==
    /\ config.jellyfin.external_url = snapshot.jellyfin.external_url
    /\ config.jellyfin.libraries = snapshot.jellyfin.libraries

UsersDiff ==
    UsersUpdateAttrs(config.users, snapshot.users,
                     remote.main.defaultQuotas.movie.quotaDays,
                     remote.main.defaultQuotas.tv.quotaDays)

JellyfinDiff ==
    JellyfinUpdateAttrs(config.jellyfin, snapshot.jellyfin, remote.jellyfin.libraries)

\* C11 as stated: when the desired and the remote object are field-for-field
\* equal, the diff reports no change with an empty payload, and the section's
\* update_remote (general, users, jellyfin, each existing Sonarr definition)
\* sends no state-changing request and returns False.
C11_Original ==
    [][ /\ (UpdateGeneral /\ config.general = snapshot.general) =>
              /\ GeneralUpdateAttrs(config.general, snapshot.general) = NoChange
              /\ Quiet /\ ReturnsFalse
        /\ (UpdateUsers /\ config.users = snapshot.users) =>
              /\ UsersDiff = NoChange
              /\ Quiet /\ ReturnsFalse
        /\ (UpdateJellyfin /\ JellyfinEqual) =>
              /\ JellyfinDiff = NoChange
              /\ Quiet /\ ReturnsFalse
        /\ (ServicesDefinition /\ EntryEqual(svc.i)) =>
              /\ EntryDiff(svc.i) = NoChange
              /\ Quiet
              /\ pc' # "error" => svc'.changed = svc.changed
      ]_vars

\* C11 as the code has it: the diff reports no change in all four cases and
\* its payload is empty for general, users and jellyfin; the diff of a Sonarr
\* definition is taken with set_unchanged, so its payload lists every
\* attribute although nothing changed, and that payload is never sent. No
\* state-changing request is sent, the remote stays as it was and the section
\* returns False (a Sonarr definition leaves the collection's changed flag as
\* it was).
C11_Amended ==
    [][ /\ (UpdateGeneral /\ config.general = snapshot.general) =>
              /\ GeneralUpdateAttrs(config.general, snapshot.general) = NoChange
              /\ Quiet /\ ReturnsFalse
        /\ (UpdateUsers /\ config.users = snapshot.users) =>
              /\ UsersDiff = NoChange
              /\ Quiet /\ ReturnsFalse
        /\ (UpdateJellyfin /\ JellyfinEqual) =>
              /\ JellyfinDiff = NoChange
              /\ Quiet /\ ReturnsFalse
        /\ (ServicesDefinition /\ EntryEqual(svc.i)) =>
              /\ ~EntryDiff(svc.i).changed
              /\ {"hostname", "apiKey", "activeDirectory", "activeProfileId",
                  "activeProfileName", "activeLanguageProfileId", "tags",
                  "activeAnimeDirectory", "animeTags"} \subseteq
                     DOMAIN EntryDiff(svc.i).attrs
              /\ Quiet
              /\ pc' # "error" => svc'.changed = svc.changed
      ]_vars

\* a pass over a remote that already holds everything the configuration
\* asks for, an existing Sonarr definition included: all four sections
\* returned False and only read-only requests were made
C11_Witness ==
    /\ pc = "done"
    /\ ~dry_run
    /\ results = <<FALSE, FALSE, FALSE, FALSE>>
    /\ config.sonarr.definitions # <<>>
    /\ \A i \in 1..Len(config.sonarr.definitions) : EntryEqual(i)
    /\ remote = remote0
    /\ \A i \in 1..Len(calls) : ~StateChanging(calls[i])

\* the create requests made for a definition name
PostsFor(name) ==
    { k \in 1..Len(calls) : /\ calls[k].method = "POST"
                            /\ calls[k].url = Url(SonarrPath)
                            /\ calls[k].req # None
                            /\ calls[k].req[1]["name"] = name }

\* the update requests made for a definition name
PutsFor(name) ==
    { k \in 1..Len(calls) : /\ calls[k].method = "PUT"
                            /\ calls[k].req # None
                            /\ calls[k].req[1]["name"] = name }

\* the delete requests made for a definition id
DeletesFor(id) ==
    { k \in 1..Len(calls) : /\ calls[k].method = "DELETE"
                            /\ calls[k].url = UrlId(SonarrPath, id) }

\* the ids the remote had for its definitions when the pass started
RemoteIds == ServiceIds(remote0.sonarr)

\* the i-th desired definition, rendered, differs from its rendered remote
\* counterpart in some field
EntryDiffers(i) ==
    \E f \in SonarrFields : RenderedDesired(i).v[f] # RenderedRemote(i).v[f]

\* the attributes every create payload carries, whatever the definition
CreateKeys ==
    {"name", "hostname", "apiKey", "activeDirectory", "activeProfileId",
     "activeProfileName", "activeLanguageProfileId", "tags", "activeAnimeDirectory",
     "animeTags"}

\* C12: for every desired definition the loop has reconciled: a name absent
\* from the remote got exactly one POST to the collection endpoint carrying
\* the name and the full rendered payload, and no PUT; a name present on the
\* remote got exactly one PUT to {endpoint}/{id} if its rendered form differs
\* from the rendered remote one and none otherwise, and no POST; no DELETE
\* is ever issued for a name that is desired.
C12_CreateOrUpdate ==
    \A j \in 1..Len(config.sonarr.definitions) :
        LET name == DesiredName(j)
        IN  /\ (j < svc.i /\ ~HasKey(snapshot.sonarr.definitions, name)) =>
                  /\ Cardinality(PostsFor(name)) = 1
                  /\ \A k \in PostsFor(name) :
                        /\ calls[k].req =
                              Some(SonarrCreateAttrs(RenderedDesired(j).v,
                                                     ProfileIds(Metadata.profiles),
                                                     ProfileIds(Metadata.languageProfiles),
                                                     TagLabelIds(Metadata.tags), name))
                        /\ CreateKeys \subseteq DOMAIN calls[k].req[1]
                        /\ calls[k].req[1]["hostname"] = DesiredService(j).hostname
                  /\ PutsFor(name) = {}
            /\ (j < svc.i /\ HasKey(snapshot.sonarr.definitions, name)) =>
                  /\ Cardinality(PutsFor(name)) = IF EntryDiffers(j) THEN 1 ELSE 0
                  /\ \A k \in PutsFor(name) :
                        calls[k].url = UrlId(SonarrPath, Lookup(RemoteIds, name))
                  /\ PostsFor(name) = {}
            /\ HasKey(RemoteIds, name) => DeletesFor(Lookup(RemoteIds, name)) = {}

\* a finished pass that created one desired definition, updated another and
\* deleted an unmanaged one
C12_Witness ==
    /\ pc = "done"
    /\ ~dry_run
    /\ Cardinality(PostsFor("B")) = 1
    /\ Cardinality(PutsFor("A")) = 1
    /\ DeletesFor(2) # {}

\* the remote definitions the configuration does not define, by name
UnmanagedNames ==
    { snapshot.sonarr.definitions[i][1] : i \in 1..Len(snapshot.sonarr.definitions) } \
    { config.sonarr.definitions[i][1] : i \in 1..Len(config.sonarr.definitions) }

\* C13: for every remote definition that the configuration does not define:
\* with delete_unmanaged true the collection's update_remote issues one
\* DELETE {endpoint}/{id} for it and returns True; with delete_unmanaged
\* false no DELETE is ever issued, the entry raises no error, and the value
\* returned is the changed flag the desired definitions left.
C13_UnmanagedToggle ==
    /\ ~config.sonarr.delete_unmanaged =>
          /\ \A k \in 1..Len(calls) : calls[k].method # "DELETE"
          /\ ~(err.where = "services" /\ svc.i > Len(config.sonarr.definitions))
          /\ Len(results) = 4 => results[4] = svc.changed
    /\ (config.sonarr.delete_unmanaged /\ Len(results) = 4) =>
          \A name \in UnmanagedNames :
              /\ Cardinality(DeletesFor(Lookup(RemoteIds, name))) = 1
              /\ results[4] = TRUE

\* a finished pass that deleted the unmanaged definition "C" (id 2) and
\* changed nothing else in the collection
C13_Witness ==
    /\ pc = "done"
    /\ ~dry_run
    /\ config.sonarr.delete_unmanaged
    /\ "C" \in UnmanagedNames
    /\ Cardinality(DeletesFor(2)) = 1
    /\ ~svc.changed
    /\ results[4] = TRUE
    /\ \A i \in 1..Len(remote.sonarr) : remote.sonarr[i].name # "C"

\* a reference, by name or by id, to a resource the metadata does not have
Unknown(resource_ids, ref) ==
    IF ref.t = "int"
    THEN \A i \in 1..Len(resource_ids) : resource_ids[i][2] # ref.n
    ELSE ~HasKey(resource_ids, ref.s)

\* the i-th desired definition refers to something that the metadata fetched
\* for it does not have
MissingReference(i) ==
    LET service == DesiredService(i)
        root_folders == RootFolders(Metadata.rootFolders)
        quality_profile_ids == ProfileIds(Metadata.profiles)
        language_profile_ids == ProfileIds(Metadata.languageProfiles)
        tag_ids == TagLabelIds(Metadata.tags)
    IN  \/ service.root_folder \notin root_folders
        \/ service.anime_root_folder # None /\ service.anime_root_folder[1] \notin root_folders
        \/ Unknown(quality_profile_ids, service.quality_profile)
        \/ Unknown(language_profile_ids, service.language_profile)
        \/ \E tag \in service.tags \cup service.anime_tags : Unknown(tag_ids, tag)
        \/ /\ service.anime_quality_profile # None
           /\ Unknown(quality_profile_ids, service.anime_quality_profile[1])
        \/ /\ service.anime_language_profile # None
           /\ Unknown(language_profile_ids, service.anime_language_profile[1])

\* C14 as stated: a desired definition with a reference (root folder, quality
\* profile, language profile or tag, the anime variants included, by name or
\* by id) that the fetched metadata does not have is never reconciled: its
\* rendering raises, the error lists every valid candidate with name and id,
\* and no create or update request is sent for it.
C14_MissingReferenceFatal ==
    \A j \in 1..Len(config.sonarr.definitions) :
        MissingReference(j) =>
            /\ svc.i <= j
            /\ PostsFor(DesiredName(j)) = {}
            /\ PutsFor(DesiredName(j)) = {}
            /\ (svc.i = j /\ err.kind = "ValueError" /\ err.where = "services") =>
                  \/ /\ err.method = "quality profile"
                     /\ err.candidates = Candidates(ProfileIds(Metadata.profiles))
                  \/ /\ err.method = "language profile"
                     /\ err.candidates = Candidates(ProfileIds(Metadata.languageProfiles))
                  \/ /\ err.method = "tag"
                     /\ err.candidates = Candidates(TagLabelIds(Metadata.tags))
                  \/ /\ err.method = "root folder"
                     /\ err.names = RootFolders(Metadata.rootFolders)

\* the metadata probes made so far
Probes == { k \in 1..Len(calls) : calls[k].url = SonarrTestUrl }

\* the names of the definitions the remote holds
RemoteNames == { remote.sonarr[i].name : i \in 1..Len(remote.sonarr) }

\* C15: when the reconciliation of the i-th desired definition fails
\* (credential lookup, probe, render, create or update), the exception leaves
\* the collection's update_remote as it was raised: the pass ends there, no
\* later definition is probed, created or updated, no unmanaged definition
\* is deleted, and what the earlier definitions wrote to the remote stays.
C15_EntryFailureEndsCollection ==
    (err.where = "services" /\ svc.i \in 1..Len(config.sonarr.definitions)) =>
        /\ pc = "error"
        /\ Len(results) = 3
        /\ \/ err.kind = "JellyseerrAPIError"
              /\ err = At(api_error(calls[Len(calls)]), "services")
           \/ err.kind = "ValueError"
              /\ err = At(RenderedDesired(svc.i).error, "services")
           \/ err.kind = "KeyError"
              /\ err \in {At(KeyError("instance_name"), "services"),
                          At(KeyError("service_ids"), "services")}
        /\ Cardinality(Probes) =
              IF err = At(KeyError("instance_name"), "services")
              THEN svc.i - 1 ELSE svc.i
        /\ \A j \in 1..Len(config.sonarr.definitions) :
              j > svc.i => PostsFor(DesiredName(j)) = {} /\ PutsFor(DesiredName(j)) = {}
        /\ \A k \in 1..Len(calls) : calls[k].method # "DELETE"
        /\ UnmanagedNames \subseteq RemoteNames
        /\ ~dry_run =>
              \A j \in 1..(svc.i - 1) :
                  \E i \in 1..Len(remote.sonarr) :
                      /\ remote.sonarr[i].name = DesiredName(j)
                      /\ remote.sonarr[i].hostname = DesiredService(j).hostname

\* the second definition's probe failed after the first definition had been
\* updated on the remote; the unmanaged definition "C", which
\* delete_unmanaged would have removed, is still there
C15_Witness ==
    /\ pc = "error"
    /\ ~dry_run
    /\ err.where = "services"
    /\ err.kind = "JellyseerrAPIError"
    /\ svc.i = 2
    /\ PutsFor("A") # {}
    /\ remote # remote0
    /\ config.sonarr.delete_unmanaged
    /\ "C" \in UnmanagedNames
    /\ "C" \in RemoteNames

\* ---------------------------------------------------------------------
\* Properties of one API call
\* ---------------------------------------------------------------------

\* the call has come to its end: it returned or an exception left it
CallEnded == apiOut \notin {"idle", "pending", "response"}

\* C16 as stated: a call returns normally exactly when the response status
\* equals the one expected status of the call; every other status, whatever
\* the response body is, raises JellyseerrAPIError carrying that status.
C16_StatusDecidesOutcome ==
    CallEnded =>
        /\ apiOut = "returned" <=> apiCall.status = apiCall.expected
        /\ apiCall.status # apiCall.expected =>
              /\ apiOut = "JellyseerrAPIError"
              /\ api_error(apiCall).status_code = apiCall.status

\* the text the claim's extraction rule gives for an error object
Extracted(res_json) ==
    IF res_json.message # None THEN res_json.message[1]
    ELSE IF res_json.error # None THEN res_json.error[1]
    ELSE Unsupported

\* C17 as stated: api_error raises JellyseerrAPIError for every JSON body
\* shape: an object gives its "message", else its "error", else the raw body;
\* a list gives the extraction of each element; any other shape (string,
\* number, null, list of non-objects) still raises JellyseerrAPIError.
C17_ApiErrorAlwaysApiError ==
    (apiOut = "response" /\ Raises(apiCall)) =>
        LET e == api_error(apiCall)
            res_json == apiCall.body
        IN  /\ e.kind = "JellyseerrAPIError"
            /\ e.status_code = apiCall.status
            /\ (apiCall.method # "DELETE" /\ res_json.t = "object") =>
                  e.message = <<Extracted(res_json)>>
            /\ (/\ apiCall.method # "DELETE"
                /\ res_json.t = "list"
                /\ \A i \in 1..Len(res_json.items) : res_json.items[i].t = "object") =>
                  e.message = [i \in 1..Len(res_json.items) |->
                                 Extracted(res_json.items[i])]

\* ---------------------------------------------------------------------
\* Properties of the bootstrap
\* ---------------------------------------------------------------------

\* a text attribute that is unset, empty or made of spaces only
Blank(v) == v = None \/ \A i \in 1..Len(v[1]) : v[1][i] = " "

\* the bootstrap attributes the configuration leaves unset, empty or blank
MissingAttrs ==
    { a \in {"server_url", "username", "password", "email_address"} :
        Blank(config.jellyfin[a]) }
    \cup (IF config.jellyfin.libraries = {} THEN {"libraries"} ELSE {})

\* _initialize has run: the instance said it was not initialized
BootstrapRan ==
    /\ ~remote0.initialized
    /\ pc \notin {"is_initialized", "initialize"}
    /\ err.where # "is_initialized"

\* C18: when any of server_url, username, password, email_address, libraries
\* is unset, empty or blank, _initialize raises one error that names every
\* such attribute and sends no request (the only request of the run is the
\* GET by which _is_initialized asked for the public settings); with all of
\* them set it does not raise that error.
C18_BootstrapPrecheck ==
    /\ (BootstrapRan /\ MissingAttrs # {}) =>
          /\ pc = "error"
          /\ err = At(ValueError("initialise", MissingAttrs, {}), "initialize")
          /\ Len(calls) = 1
          /\ calls[1].url = PublicUrl
          /\ remote = remote0
    /\ (err.kind = "ValueError" /\ err.method = "initialise") => MissingAttrs # {}

\* a bootstrap refused for all five attributes at once, two of them being
\* present but blank or empty
C18_Witness ==
    /\ pc = "error"
    /\ err.where = "initialize"
    /\ err.names = {"server_url", "username", "password", "email_address", "libraries"}
    /\ config.jellyfin.server_url = Some(<<" ">>)
    /\ config.jellyfin.password = Some(<<>>)
    /\ Len(calls) = 1

\* the names of the libraries the remote knows
LibraryNames == { remote.jellyfin.libraries[i].name : i \in 1..Len(remote.jellyfin.libraries) }

\* the library enable requests made so far
Enables == { k \in 1..Len(calls) : calls[k].url.query = "enable" }

\* C19 as stated, for JellyseerrJellyfinSettings.update_remote: a desired
\* library name that the remote does not know is fatal: the section never
\* returns normally, and no enable list that leaves the name out is sent.
C19_UnknownLibraryFatal ==
    ~(config.jellyfin.libraries \subseteq LibraryNames) =>
        /\ Enables = {}
        /\ Len(results) = 0
        /\ invoked # <<>> => pc = "error" /\ err.where = "jellyfin"

\* C20 as stated: every request carries the X-Api-Key header except the GET
\* of the public settings and the bootstrap's POST /api/v1/auth/jellyfin; the
\* bootstrap's library sync, library enable and POST
\* /api/v1/settings/initialize carry the key.
C20_Original ==
    \A k \in 1..Len(calls) :
        calls[k].use_api_key <=> calls[k].url \notin {PublicUrl, AuthUrl}

\* the k-th call is one of _is_initialized or _initialize: the enable request
\* of the bootstrap is the one made before from_remote read the main settings
BootstrapCall(k) ==
    \/ calls[k].url \in {PublicUrl, AuthUrl, UrlSync(LibraryPath), InitializeUrl}
    \/ /\ calls[k].url.query = "enable"
       /\ \A j \in 1..(k - 1) : calls[j].url # MainUrl

\* C20 as the code has it: the requests without the X-Api-Key header are the
\* GET of the public settings and all four requests of the bootstrap (POST
\* /api/v1/auth/jellyfin, library sync, library enable, POST
\* /api/v1/settings/initialize), which rely on the session cookie; every
\* other request carries the key.
C20_Amended ==
    \A k \in 1..Len(calls) : calls[k].use_api_key <=> ~BootstrapCall(k)

\* a fresh instance was bootstrapped, its four bootstrap requests going out
\* without the key, and the pass that followed created a Sonarr definition
\* with the key
C20_Witness ==
    /\ pc = "done"
    /\ ~remote0.initialized
    /\ \E k \in 1..Len(calls) :
          /\ calls[k].url = InitializeUrl
          /\ calls[k].sent
          /\ ~calls[k].use_api_key
    /\ \E k \in 1..Len(calls) : calls[k].url = UrlSync(LibraryPath)
    /\ \E k \in 1..Len(calls) :
          /\ calls[k].method = "POST"
          /\ calls[k].url = Url(SonarrPath)
          /\ calls[k].use_api_key

\* ---------------------------------------------------------------------
\* Properties of the order of a pass
\* ---------------------------------------------------------------------

\* C21: the sections' update_remote are invoked in the order jellyfin,
\* general, users, services, each at most once and, in a pass without error,
\* each exactly once whatever the earlier sections returned; the pass then
\* returns True exactly when at least one section returned True.
C21_FixedOrderNoShortCircuit ==
    /\ invoked = SubSeq(SectionOrder, 1, Len(invoked))
    /\ Len(results) <= Len(invoked)
    /\ pc = "done" =>
          /\ invoked = SectionOrder
          /\ Len(results) = Len(SectionOrder)
          /\ any(results) <=> results # <<FALSE, FALSE, FALSE, FALSE>>

\* a finished pass whose first section reported a change and whose other
\* three sections were still invoked and reported none
C21_Witness ==
    /\ pc = "done"
    /\ invoked = SectionOrder
    /\ results = <<TRUE, FALSE, FALSE, FALSE>>
    /\ any(results)

\* the state-changing requests made to the Jellyfin settings of the remote
JellyfinWrites ==
    { k \in 1..Len(calls) : /\ StateChanging(calls[k])
                            /\ calls[k].url.path \in {LibraryPath, JellyfinUrl.path} }

\* the pushes made to the main settings of the remote
MainWrites ==
    { k \in 1..Len(calls) : calls[k].method = "POST" /\ calls[k].url = MainUrl }

\* C22 as stated: each of jellyfin, general and users sends at most one
\* state-changing request per pass and returns True exactly when it sent
\* it, so no state has a change of a section applied (such as the Jellyfin
\* library enable list) while the push of that section failed.
C22_NoPartialApplication ==
    /\ Cardinality(JellyfinWrites) <= 1
    /\ Cardinality(MainWrites) <= 2
    /\ Len(results) >= 1 => (results[1] <=> JellyfinWrites # {})
    /\ err.where = "jellyfin" => \A k \in Enables : ~Applied(calls[k])

\* ---------------------------------------------------------------------
\* Properties of rendering
\* ---------------------------------------------------------------------

\* what the claim says a reference of the remote record renders to: the name
\* of a known id, and itself otherwise
LenientRef(resource_ids, ref) ==
    IF ref.t = "int" /\ \E i \in 1..Len(resource_ids) : resource_ids[i][2] = ref.n
    THEN RefName(resource_ids[CHOOSE i \in 1..Len(resource_ids) :
                                 resource_ids[i][2] = ref.n][1])
    ELSE ref

\* the resource a reference denotes: an id, or the name where no id is known
Denotes(resource_ids, ref) ==
    IF ref.t = "int" THEN <<"id", ref.n>>
    ELSE IF HasKey(resource_ids, ref.s) THEN <<"id", Lookup(resource_ids, ref.s)>>
    ELSE <<"name", ref.s>>

\* the remote record the i-th desired definition is compared against
RemoteRecord(i) == Lookup(snapshot.sonarr.definitions, DesiredName(i))

\* the i-th desired definition and its remote record denote the same
\* profiles and tags and agree on everything else
SameDenotation(i) ==
    LET d == DesiredService(i)
        r == RemoteRecord(i)
        qp == ProfileIds(Metadata.profiles)
        lp == ProfileIds(Metadata.languageProfiles)
        tg == TagLabelIds(Metadata.tags)
    IN  /\ Denotes(qp, d.quality_profile) = Denotes(qp, r.quality_profile)
        /\ Denotes(lp, d.language_profile) = Denotes(lp, r.language_profile)
        /\ { Denotes(tg, x) : x \in d.tags } = { Denotes(tg, x) : x \in r.tags }
        /\ { Denotes(tg, x) : x \in d.anime_tags } = { Denotes(tg, x) : x \in r.anime_tags }
        /\ \A f \in {"hostname", "root_folder", "anime_root_folder",
                     "anime_quality_profile", "anime_language_profile"} : d[f] = r[f]

\* C23: rendering the remote record (required=False) never raises; an id
\* the probe knows is rendered to its name, an id it does not know and a
\* name, known or not, stay as they are, and the root folder is not
\* validated; so a desired definition and a remote record that denote the
\* same profiles and tags, one by name and the other by id, render to equal
\* values, are not reported as changed and get no PUT.
C23_RemoteRenderingLenient ==
    \A j \in 1..Len(config.sonarr.definitions) :
        (snapshot # NoSnapshot /\ HasKey(snapshot.sonarr.definitions, DesiredName(j))) =>
            LET r == RemoteRecord(j)
                rr == RenderedRemote(j)
            IN  /\ rr.ok
                /\ rr.v.root_folder = r.root_folder
                /\ rr.v.quality_profile =
                      LenientRef(ProfileIds(Metadata.profiles), r.quality_profile)
                /\ rr.v.language_profile =
                      LenientRef(ProfileIds(Metadata.languageProfiles), r.language_profile)
                /\ rr.v.tags = { LenientRef(TagLabelIds(Metadata.tags), x) : x \in r.tags }
                /\ (RenderedDesired(j).ok /\ SameDenotation(j)) =>
                      /\ \A f \in SonarrFields : RenderedDesired(j).v[f] = rr.v[f]
                      /\ ~EntryDiff(j).changed
                      /\ PutsFor(DesiredName(j)) = {}

\* a finished pass over a definition that names its quality profile by id
\* and its tag by name while the remote record has the profile by name and
\* the tag by id: nothing was sent for it
C23_Witness ==
    /\ pc = "done"
    /\ ~dry_run
    /\ DesiredService(1).quality_profile = RefId(4)
    /\ DesiredService(1).tags = {RefName("hd")}
    /\ RemoteRecord(1).quality_profile = RefName("HD-1080p")
    /\ RemoteRecord(1).tags = {RefId(2)}
    /\ SameDenotation(1)
    /\ PutsFor("A") = {}
    /\ results[4] = FALSE

\* ---------------------------------------------------------------------
\* Properties of a remote collection that holds a name more than once
\* ---------------------------------------------------------------------

\* the names the remote collection held when the pass started
RemoteNames0 == { remote0.sonarr[i].name : i \in 1..Len(remote0.sonarr) }

\* the positions of the first and of the last entry of that name
FirstOf(name) ==
    CHOOSE i \in 1..Len(remote0.sonarr) :
        /\ remote0.sonarr[i].name = name
        /\ \A j \in 1..(i - 1) : remote0.sonarr[j].name # name

LastOf(name) ==
    CHOOSE i \in 1..Len(remote0.sonarr) :
        /\ remote0.sonarr[i].name = name
        /\ \A j \in (i + 1)..Len(remote0.sonarr) : remote0.sonarr[j].name # name

\* the index and the snapshot take the entry at position At0(name) for
\* every name, and every PUT and DELETE goes to an id the index holds
ResolvedBy(At0(_)) ==
    /\ svc # NoSvc =>
          \A name \in RemoteNames0 :
              Lookup(svc.service_ids, name) = remote0.sonarr[At0(name)].id
    /\ snapshot # NoSnapshot =>
          \A name \in RemoteNames0 :
              Lookup(snapshot.sonarr.definitions, name) =
                 SonarrFromRemote(remote0.sonarr[At0(name)])
    /\ \A k \in 1..Len(calls) :
          calls[k].method \in {"PUT", "DELETE"} =>
              \E name \in RemoteNames0 : calls[k].url.id = remote0.sonarr[At0(name)].id

\* C24 as stated: when the remote collection holds a name more than once,
\* the name-to-id index used for PUT and DELETE maps the name to the id of
\* the first such entry, and the remote record compared against the desired
\* definition is that first entry.
C24_Original == ResolvedBy(FirstOf)

\* C24 as the code has it: the index maps the name to the id of the last
\* entry of that name in the remote's list, and the remote record compared
\* against the desired definition is that same last entry; PUT and DELETE
\* go to its id, and the earlier entries of the name are never touched.
C24_Amended == ResolvedBy(LastOf)

\* the remote held "A" twice; the desired "A" equals the first entry and
\* differs from the last, and the pass sent a PUT to the last entry's id
C24_Witness ==
    /\ pc = "done"
    /\ ~dry_run
    /\ FirstOf("A") # LastOf("A")
    /\ config.sonarr.definitions # <<>>
    /\ DesiredService(1).hostname = remote0.sonarr[FirstOf("A")].hostname
    /\ \E k \in PutsFor("A") : calls[k].url.id = remote0.sonarr[LastOf("A")].id


\* the pushes of the users section that carry the request quotas
QuotaPushes ==
    { k \in MainWrites : calls[k].req # None /\ "defaultQuotas" \in DOMAIN calls[k].req[1] }

\* the request the users section's update_remote begins with
UsersGet(call) ==
    /\ call.method = "GET"
    /\ call.url = MainUrl
    /\ call.sent

\* C25: the users section's update_remote begins every pass, dry or not,
\* with a GET of /api/v1/settings/main, sent before anything the section
\* pushes; a defaultQuotas value it pushes carries for movie and tv the
\* quotaDays the remote held at that GET and the two desired limits,
\* whichever of the two limits differed, and a push that is applied leaves
\* the remote's quotaDays as they were.
C25_QuotaDaysPreserved ==
    [][pc = "users" =>
         /\ Len(calls') > Len(calls)
         /\ UsersGet(calls'[Len(calls) + 1])
         /\ \A k \in 1..Len(calls) : calls'[k] = calls[k]
         /\ \A k \in QuotaPushes' :
              /\ k = Len(calls) + 2
              /\ calls'[k].req[1]["defaultQuotas"] =
                    [movie |-> [quotaDays |-> remote.main.defaultQuotas.movie.quotaDays,
                                quotaLimit |-> config.users.global_movie_request_limit],
                     tv |-> [quotaDays |-> remote.main.defaultQuotas.tv.quotaDays,
                             quotaLimit |-> config.users.global_series_request_limit]]
         /\ remote'.main.defaultQuotas.movie.quotaDays =
               remote.main.defaultQuotas.movie.quotaDays
         /\ remote'.main.defaultQuotas.tv.quotaDays =
               remote.main.defaultQuotas.tv.quotaDays]_vars

\* the users section pushed only a changed series limit to a remote whose
\* movie quota period is 30 days and whose series period is 14, and the
\* push was applied
C25_Witness ==
    /\ pc = "services"
    /\ ~dry_run
    /\ remote0.main.defaultQuotas.movie.quotaDays = 30
    /\ remote0.main.defaultQuotas.tv.quotaDays = 14
    /\ remote0.main.defaultQuotas.movie.quotaLimit = config.users.global_movie_request_limit
    /\ remote0.main.defaultQuotas.tv.quotaLimit # config.users.global_series_request_limit
    /\ \E k \in QuotaPushes : Applied(calls[k])
    /\ remote.main.defaultQuotas.tv.quotaLimit = config.users.global_series_request_limit
    /\ remote.main.defaultQuotas.movie.quotaDays = 30

\* the GET requests of the pass that went to `url`
Gets(url) ==
    { k \in 1..Len(calls) : calls[k].method = "GET" /\ calls[k].url = url /\ calls[k].sent }

\* the names the index built by SonarrSettings.update_remote knows
IndexNames == { svc.service_ids[k][1] : k \in 1..Len(svc.service_ids) }

\* the names of the remote argument built by SonarrSettings.from_remote
SnapshotNames ==
    { snapshot.sonarr.definitions[k][1] : k \in 1..Len(snapshot.sonarr.definitions) }

\* C26 as stated: within one pass no endpoint (/api/v1/settings/main,
\* /api/v1/settings/sonarr, /api/v1/settings/jellyfin) is fetched by GET a
\* second time.
C26_Original ==
    /\ Cardinality(Gets(MainUrl)) <= 1
    /\ Cardinality(Gets(Url(SonarrPath))) <= 1
    /\ Cardinality(Gets(JellyfinUrl)) <= 1

\* C26 amended: a pass that completes, dry or not, has fetched
\* /api/v1/settings/main three times (general.from_remote, users.from_remote
\* and users.update_remote), /api/v1/settings/sonarr twice (from_remote and
\* update_remote) and /api/v1/settings/jellyfin once; the existence check
\* reads the from_remote fetch and the name-to-id index the update_remote
\* fetch, and as nothing in between changes the collection the two hold the
\* same names.
C26_Amended ==
    /\ pc = "done" =>
         /\ Cardinality(Gets(MainUrl)) = 3
         /\ Cardinality(Gets(Url(SonarrPath))) = 2
         /\ Cardinality(Gets(JellyfinUrl)) = 1
    /\ pc = "services_definitions" =>
         /\ Cardinality(Gets(Url(SonarrPath))) = 2
         /\ IndexNames = SnapshotNames

\* a completed pass over a remote collection that is not empty, with the
\* three fetches of the main settings made
C26_Witness ==
    /\ pc = "done"
    /\ Cardinality(Gets(MainUrl)) = 3
    /\ SnapshotNames # {}
    /\ config.sonarr.definitions # <<>>

\* the ids the remote's libraries of the desired names have
DesiredLibraryIds ==
    { remote.jellyfin.libraries[i].id :
        i \in { j \in 1..Len(remote.jellyfin.libraries) :
                   remote.jellyfin.libraries[j].name \in config.jellyfin.libraries } }

\* the k-th call of the run is `method` to `url` and comes after a call that
\* did not raise
NextRequest(k, method, url) ==
    /\ calls[k].method = method
    /\ calls[k].url = url
    /\ ~Raises(calls[k - 1])

\* C27: after the GET by which _is_initialized asked, _initialize makes its
\* calls in the order POST /api/v1/auth/jellyfin, GET library?sync=true, GET
\* library?enable=<ids>, POST /api/v1/settings/initialize, each only after
\* the one before it returned without raising; the enable list is exactly
\* the ids of the desired libraries; when a desired library is not among
\* the synced ones neither the enable nor the initialize call is made; and
\* none of the four is made a second time.
C27_BootstrapOrder ==
    (BootstrapRan /\ MissingAttrs = {}) =>
        /\ Len(calls) >= 2
        /\ calls[2].method = "POST" /\ calls[2].url = AuthUrl
        /\ Len(calls) >= 3 => NextRequest(3, "GET", UrlSync(LibraryPath))
        /\ Len(calls) >= 4 =>
              /\ NextRequest(4, "GET", UrlEnable(LibraryPath, DesiredLibraryIds))
              /\ config.jellyfin.libraries \subseteq LibraryNames
        /\ Len(calls) >= 5 => NextRequest(5, "POST", InitializeUrl)
        /\ Len(calls) >= 6 => ~Raises(calls[5])
        /\ \A k \in 6..Len(calls) :
              calls[k].url \notin {AuthUrl, UrlSync(LibraryPath), InitializeUrl}
        /\ ~(config.jellyfin.libraries \subseteq LibraryNames) =>
              /\ Enables = {}
              /\ \A k \in 1..Len(calls) : calls[k].url # InitializeUrl

\* a fresh instance bootstrapped by the four requests, the enable list being
\* the id of the one desired library out of the two that were synced
C27_Witness ==
    /\ BootstrapRan
    /\ ~dry_run
    /\ pc = "from_remote"
    /\ Len(calls) = 5
    /\ calls[4].url = UrlEnable(LibraryPath, {"l1"})
    /\ Len(remote.jellyfin.libraries) = 2
    /\ \A k \in 2..5 : Applied(calls[k])
    /\ remote.initialized

\* the number of desired definitions
NDefinitions == Len(config.sonarr.definitions)

\* the create and update requests of the pass
Writes ==
    { k \in 1..Len(calls) :
        \/ calls[k].method = "POST" /\ calls[k].url = Url(SonarrPath)
        \/ calls[k].method = "PUT" /\ calls[k].url.path = SonarrPath }

\* the delete requests of the pass
Deletes == { k \in 1..Len(calls) : calls[k].method = "DELETE" }

\* the position in the declaration order of the definition the k-th call,
\* a probe, was made for: one more than the probes before it
ProbeOrder(k) == 1 + Cardinality({ j \in Probes : j < k })

\* the reconciliation of the definition at svc.i raised
EntryFailed == pc = "error" /\ err.where = "services" /\ svc.i \in 1..NDefinitions

\* C28: SonarrSettings.update_remote probes the desired definitions in
\* declaration order, once each: the definitions it is done with have one
\* probe each and the one that failed at most one; a create or update is
\* the call right after the probe of the definition it names, and there is
\* at most one per definition; a DELETE is made only when every desired
\* definition has been processed, after every probe, create and update.
C28_DeletesAfterDefinitions ==
    svc.i >= 1 =>
        /\ Cardinality(Probes) \in
              (IF EntryFailed THEN {svc.i - 1, svc.i} ELSE {svc.i - 1})
        /\ \A k \in Probes :
              /\ ProbeOrder(k) <= NDefinitions
              /\ calls[k].req[1].hostname = DesiredService(ProbeOrder(k)).hostname
        /\ \A k \in Writes :
              /\ k - 1 \in Probes
              /\ calls[k].req[1]["name"] = DesiredName(ProbeOrder(k - 1))
        /\ \A i \in 1..NDefinitions :
              Cardinality(PostsFor(DesiredName(i)) \cup PutsFor(DesiredName(i))) <= 1
        /\ Deletes # {} =>
              /\ svc.i = NDefinitions + 1
              /\ \A d \in Deletes : \A k \in Probes \cup Writes : k < d

\* a pass over two desired definitions, each probed once and then created
\* or updated, that ended with the delete of an unmanaged definition
C28_Witness ==
    /\ pc = "done"
    /\ ~dry_run
    /\ NDefinitions = 2
    /\ Cardinality(Probes) = 2
    /\ Cardinality(Writes) = 2
    /\ \E d \in Deletes : Applied(calls[d])

\* the pass under way is the one that follows a completed pass
SecondPass == Len(results) >= 4 /\ ~(pc = "done" /\ Len(results) = 4)

\* C29 as stated: the pass that immediately follows a completed non-dry-run
\* pass with the same configuration sends no state-changing request and
\* every section of it reports changed=False.
C29_Converges ==
    SecondPass =>
        /\ \A k \in 1..Len(calls) : ~StateChanging(calls[k])
        /\ \A i \in 5..Len(results) : ~results[i]

\* the permissions that some bitmask of `bitmasks` decodes to: set_decoder
\* returns a set that holds them
Decodable(bitmasks) ==
    { p \in Permission : \E b \in bitmasks : set_decoder(b).ok /\ p \in set_decoder(b).perms }

\* C30 as stated: every Permission member other than none is in the set
\* set_decoder returns for some bitmask, and the set returned for a bitmask
\* encodes to no bit that the bitmask does not have.
C30_EveryPermissionDecodable ==
    /\ Permission \ {"none"} \subseteq Decodable(Bitmasks)
    /\ (decoded # Pending /\ decoded.ok) =>
          BitAnd(set_encoder(decoded.perms), encoded) = set_encoder(decoded.perms)

====
